---- MODULE Spec2Model ----
(***************************************************************************)
(* A model of the codegraph analysis pipeline: the per-language            *)
(* extractors, the entry-point matcher, the reachability engine and the    *)
(* TypeScript unused-parameter checker.                                    *)
(*                                                                         *)
(* Strings of the program are sequences of one-character strings, so that  *)
(* startsWith, includes, split and glob matching are computed, not         *)
(* assumed.                                                                *)
(***************************************************************************)
EXTENDS Integers, Sequences, FiniteSets, TLC

\* ------------------------------------------------------------------------
\* Bounds of the model
\* ------------------------------------------------------------------------

\* Number of call / reference sites present in an analysed source tree.
MaxSites == 2

\* Number of entry-point rules in a configuration.
MaxRules == 2

\* Number of parameters of a function handed to the parameter checker.
MaxParams == 1

\* ------------------------------------------------------------------------
\* Strings
\* ------------------------------------------------------------------------

Range(s) == {s[i] : i \in 1..Len(s)}

\* String.prototype.startsWith / strings.HasPrefix
StartsWith(s, p) == Len(s) >= Len(p) /\ SubSeq(s, 1, Len(p)) = p

\* String.prototype.includes
Includes(s, p) ==
  \E i \in 0..(Len(s) - Len(p)) : SubSeq(s, i + 1, i + Len(p)) = p

\* String.prototype.split on a one-character separator
RECURSIVE SplitFrom(_, _, _)
SplitFrom(s, sep, cur) ==
  IF s = <<>> THEN <<cur>>
  ELSE IF Head(s) = sep THEN <<cur>> \o SplitFrom(Tail(s), sep, <<>>)
  ELSE SplitFrom(Tail(s), sep, Append(cur, Head(s)))

Split(s, sep) == SplitFrom(s, sep, <<>>)

\* Array.prototype.join
RECURSIVE Join(_, _)
Join(parts, sep) ==
  IF parts = <<>> THEN <<>>
  ELSE IF Len(parts) = 1 THEN parts[1]
  ELSE parts[1] \o sep \o Join(Tail(parts), sep)

\* Subsets of 1..n with at most k members: the ways to choose which of n
\* candidate items are present.
RECURSIVE SubsetsUpTo(_, _)
SubsetsUpTo(n, k) ==
  IF n = 0 \/ k = 0 THEN {{}}
  ELSE SubsetsUpTo(n - 1, k) \cup {S \cup {n} : S \in SubsetsUpTo(n - 1, k - 1)}

\* The members of a set of naturals as an ascending sequence.
RECURSIVE Ascending(_)
Ascending(S) ==
  IF S = {} THEN <<>>
  ELSE LET m == CHOOSE x \in S : \A y \in S : x <= y
       IN <<m>> \o Ascending(S \ {m})

\* ------------------------------------------------------------------------
\* TypeScript unused-parameter checker (ts-param-checker)
\* ------------------------------------------------------------------------
\* A binding name is an identifier or a destructuring pattern:
\*   [kind |-> "id",  text |-> name, elements |-> <<>>]
\*   [kind |-> "obj" | "arr", text |-> <<>>, elements |-> <<binding, ...>>]
\* An element of kind "omitted" is a hole of an array pattern.
\* A function is [parameters, hasBody, body]; its body is the set of the
\* identifier occurrences in it,
\*   [text |-> name, ctx |-> "expr" | "propname" | "param" | "decl"]
\* "propname": the name of a property access (obj.name); "param": the name
\* of a parameter of a function nested in the body; "decl": the name of a
\* variable declaration in the body.

FuncNode(parameters, hasBody, body) ==
  [parameters |-> parameters, hasBody |-> hasBody, body |-> body]

Ident(name) == [kind |-> "id", text |-> name, elements |-> <<>>]
Pattern(k, elems) == [kind |-> k, text |-> <<>>, elements |-> elems]
Omitted == [kind |-> "omitted", text |-> <<>>, elements |-> <<>>]

\* isIdentifierUsedInBody
isIdentifierUsedInBody(name, body) ==
  \E occ \in body :
     /\ occ.text = name
     /\ occ.ctx # "propname"
     /\ occ.ctx # "param"

\* isDestructuredParamUsed: TRUE as soon as any binding of the pattern is used
RECURSIVE isDestructuredParamUsed(_, _)
isDestructuredParamUsed(pattern, body) ==
  \E i \in 1..Len(pattern.elements) :
     LET element == pattern.elements[i] IN
       \/ /\ element.kind = "id"
          /\ ~StartsWith(element.text, <<"_">>)
          /\ isIdentifierUsedInBody(element.text, body)
       \/ /\ element.kind \in {"obj", "arr"}
          /\ isDestructuredParamUsed(element, body)

\* isParameterUsed
isParameterUsed(param, funcNode) ==
  IF ~funcNode.hasBody THEN TRUE
  ELSE IF param.kind \in {"obj", "arr"}
       THEN isDestructuredParamUsed(param, funcNode.body)
  ELSE IF param.kind = "id"
       THEN isIdentifierUsedInBody(param.text, funcNode.body)
  ELSE TRUE

\* Node.getText() of a binding name, in the canonical layout "{ a, b }"
RECURSIVE BindingText(_)
BindingText(b) ==
  IF b.kind = "id" THEN b.text
  ELSE IF b.kind = "omitted" THEN <<>>
  ELSE LET texts == [i \in 1..Len(b.elements) |-> BindingText(b.elements[i])]
           open == IF b.kind = "obj" THEN <<"{", " ">> ELSE <<"[">>
           close == IF b.kind = "obj" THEN <<" ", "}">> ELSE <<"]">>
       IN open \o Join(texts, <<",", " ">>) \o close

\* getParamName
getParamName(param) == BindingText(param)

\* extractSingleParam
extractSingleParam(param, position, funcNode) ==
  LET name == getParamName(param) IN
    IF StartsWith(name, <<"_">>)
    THEN [name |-> name, isUsed |-> TRUE, position |-> position]
    ELSE [name |-> name, isUsed |-> isParameterUsed(param, funcNode),
          position |-> position]

\* extractParameters
extractParameters(funcNode) ==
  LET parameters == [i \in 1..Len(funcNode.parameters) |->
                       extractSingleParam(funcNode.parameters[i], i - 1, funcNode)]
      NotUsed(p) == ~p.isUsed
      unused == SelectSeq(parameters, NotUsed)
  IN [parameters |-> parameters,
      unusedParameters |-> [i \in 1..Len(unused) |-> unused[i].name]]

\* ------------------------------------------------------------------------
\* The analysed source trees
\* ------------------------------------------------------------------------
\* A source tree has two files and, per language, three function
\* declarations; which call and reference sites it contains, and which of
\* its files the include/exclude globs select, vary from run to run.

FileA == <<"s", "/", "a">>
FileB == <<"s", "/", "r", "/", "b">>

\* The files of the tree in discovery order.
TreeFiles == <<FileA, FileB>>

NameMain == <<"m", "a", "i", "n">>
NameHelp == <<"h", "e", "l", "p">>
NameRun == <<"r", "u", "n">>
NameNewS == <<"N", "e", "w", "S">>
NameDo == <<"D", "o">>
NameS == <<"S">>
NameI == <<"I">>
NameNewI == <<"N", "e", "w", "I">>
NameDunderMain == <<"_", "_", "m", "a", "i", "n", "_", "_">>
DecoratorGet == <<"a", "p", "i", ".", "g", "e", "t">>

PA == <<"a">>
PB == <<"b">>
PX == <<"x">>
PY == <<"y">>
PUnder == <<"_", "c">>

Expr(name) == [text |-> name, ctx |-> "expr"]

\* TypeScript declarations that have a body, in source order:
\*   s/a:    export function main(x) { x }
\*           class S { @api.get run({ a, b }) { a } }
\*   s/r/b:  export function help(y: string): void;    (TsOverload)
\*           export function help(y) { }
TsDecls ==
  << [file |-> FileA, name |-> NameMain, parentClass |-> <<>>,
      syntax |-> "function", modifiers |-> <<"export">>,
      statementExported |-> FALSE,
      decorators |-> <<>>, startLine |-> 1, endLine |-> 3,
      funcNode |-> FuncNode(<<Ident(PX)>>, TRUE, {Expr(PX)})],
     [file |-> FileA, name |-> NameRun, parentClass |-> NameS,
      syntax |-> "method", modifiers |-> <<>>,
      statementExported |-> FALSE,
      decorators |-> <<DecoratorGet>>, startLine |-> 5, endLine |-> 9,
      funcNode |-> FuncNode(<<Pattern("obj", <<Ident(PA), Ident(PB)>>)>>,
                           TRUE, {Expr(PA)})],
     [file |-> FileB, name |-> NameHelp, parentClass |-> <<>>,
      syntax |-> "function", modifiers |-> <<"export">>,
      statementExported |-> FALSE,
      decorators |-> <<>>, startLine |-> 2, endLine |-> 3,
      funcNode |-> FuncNode(<<Ident(PY)>>, TRUE, {})] >>

\* The overload signature that precedes the implementation of help: a
\* FunctionDeclaration with a name and no body.
TsOverload ==
  [file |-> FileB, name |-> NameHelp, parentClass |-> <<>>,
   syntax |-> "function", modifiers |-> <<"export">>,
   statementExported |-> FALSE,
   decorators |-> <<>>, startLine |-> 1, endLine |-> 1,
   funcNode |-> FuncNode(<<Ident(PY)>>, FALSE, {})]

\* Every FunctionDeclaration and MethodDeclaration of the tree, in the order
\* in which extractNodes visits them.
TsVisited == <<TsDecls[1], TsDecls[2], TsOverload, TsDecls[3]>>

\* Go declarations, in source order:
\*   s/a:    package main; func main() {}; func NewS(c) *S { c }
\*   s/r/b:  package r; type S struct{}; type I interface { Do(p) }
\*           func (s *S) Do(p) {}
\*           func NewI() I { return nil }
\* Call sites are candidates in the bodies of the first three only.
GoDecls ==
  << [file |-> FileA, pkgName |-> NameMain, name |-> NameMain,
      receiver |-> <<>>, returns |-> <<>>, params |-> <<>>,
      bodyIdents |-> {}, startLine |-> 3, endLine |-> 4],
     [file |-> FileA, pkgName |-> NameMain, name |-> NameNewS,
      receiver |-> <<>>, returns |-> NameS, params |-> <<<<"c">>>>,
      bodyIdents |-> {<<"c">>}, startLine |-> 6, endLine |-> 9],
     [file |-> FileB, pkgName |-> <<"r">>, name |-> NameDo,
      receiver |-> NameS, returns |-> <<>>, params |-> <<<<"p">>>>,
      bodyIdents |-> {}, startLine |-> 2, endLine |-> 2],
     [file |-> FileB, pkgName |-> <<"r">>, name |-> NameNewI,
      receiver |-> <<>>, returns |-> NameI, params |-> <<>>,
      bodyIdents |-> {}, startLine |-> 4, endLine |-> 6] >>

\* The named types of the Go tree: scope.Names() of package r
GoTypes ==
  << [name |-> NameI, isInterface |-> TRUE, methods |-> {NameDo}],
     [name |-> NameS, isInterface |-> FALSE, methods |-> {}] >>

\* Python declarations, in source order:
\*   s/a:    def main(): ...; the node named __main__
\*   s/r/b:  def help(y): pass
PyDecls ==
  << [file |-> FileA, name |-> NameMain, unused |-> <<>>,
      startLine |-> 1, endLine |-> 2],
     [file |-> FileA, name |-> NameDunderMain, unused |-> <<>>,
      startLine |-> 4, endLine |-> 6],
     [file |-> FileB, name |-> NameHelp, unused |-> <<PY>>,
      startLine |-> 1, endLine |-> 2] >>

NumDecls == Len(TsDecls)
DeclIx == 1..NumDecls

\* The candidate sites of a tree, in source order.  A site is
\*   [src, form, tgt, line]: src the declaration whose body holds it (for a
\*   Go "varinit" site: the file, by index, whose package-level var/const
\*   initializer holds it), tgt the declaration it names.
\*     "call"    f(), x.m()                       (all languages)
\*     "elem"    h[k]()                           (TypeScript)
\*     "arg"     xs.map(f)                        (TypeScript)
\*     "ref"     register(f), register(x.m)       (Go)
\*     "icall"   i.Do() with i of interface type I (Go; tgt is 0)
\*     "varinit" var M = provide(f)               (Go)
Site(src, form, tgt, line) ==
  [src |-> src, form |-> form, tgt |-> tgt, line |-> line]

\* Sites of form `form`, one per <<src, tgt>> pair; `base` is the number of
\* candidates before them.
BodySites(form, pairs, base) ==
  [k \in 1..Len(pairs) |-> Site(pairs[k][1], form, pairs[k][2], base + k)]

\* Every declaration may call every declaration, itself included.
AllPairs ==
  [k \in 1..(NumDecls * NumDecls) |->
     <<((k - 1) \div NumDecls) + 1, ((k - 1) % NumDecls) + 1>>]

\* h[k]() in main and in help
ElemSites(base) ==
  BodySites("elem", << <<1, 0>>, <<3, 0>> >>, base)

\* i.Do() in NewS and in S.Do
IfaceCallSites(base) ==
  BodySites("icall", << <<2, 0>>, <<3, 0>> >>, base)

\* var M = provide(NewS), var N = provide(S.Do) in s/a;
\* var K = provide(S.Do) in s/r/b
VarInitSites(base) ==
  BodySites("varinit", << <<1, 2>>, <<1, 3>>, <<2, 3>> >>, base)

\* The Go call sites: main calls NewS and S.Do, NewS calls S.Do, S.Do calls
\* NewS and itself.
GoCallPairs == << <<1, 2>>, <<1, 3>>, <<2, 3>>, <<3, 2>>, <<3, 3>> >>

\* Function-value references are candidates in the first declaration only.
RefPairs == << <<1, 2>>, <<1, 3>> >>

SiteUniverse(language) ==
  IF language = "typescript"
    THEN LET calls == BodySites("call", AllPairs, 0)
             args == BodySites("arg", RefPairs, Len(calls))
         IN calls \o args \o ElemSites(Len(calls) + Len(args))
  ELSE IF language = "go"
    THEN LET calls == BodySites("call", GoCallPairs, 0)
             refs == BodySites("ref", RefPairs, Len(calls))
             icalls == IfaceCallSites(Len(calls) + Len(refs))
         IN calls \o refs \o icalls
            \o VarInitSites(Len(calls) + Len(refs) + Len(icalls))
  ELSE BodySites("call", AllPairs, 0)

\* The sites present in one tree: a choice of at most MaxSites candidates,
\* kept in source order.
SiteChoices(language) ==
  LET u == SiteUniverse(language) IN
    {[i \in 1..Cardinality(S) |-> u[Ascending(S)[i]]] :
       S \in SubsetsUpTo(Len(u), MaxSites)}

\* The file lists include/exclude can resolve to (BaseAnalyzer.resolveFiles
\* deduplicates and keeps discovery order).
FileChoices == {<<>>, <<FileA>>, <<FileB>>, <<FileA, FileB>>}

InFiles(file, files) == file \in Range(files)

\* ------------------------------------------------------------------------
\* Shared extractor helpers
\* ------------------------------------------------------------------------

Colon == <<":">>
Slash == <<"/">>

RECURSIVE Concat(_)
Concat(seqs) ==
  IF seqs = <<>> THEN <<>> ELSE Head(seqs) \o Concat(Tail(seqs))

\* BaseAnalyzer.getPackageOrModule
getPackageOrModule(filePath) ==
  LET parts == Split(filePath, "/") IN
    IF Len(parts) > 1
    THEN Join(SubSeq(parts, 1, Len(parts) - 1), Slash)
    ELSE <<".">>

\* filepath.Dir of a slash-separated relative path
FilepathDir(relPath) == getPackageOrModule(relPath)

CallSite(filePath, line, column) ==
  [filePath |-> filePath, line |-> line, column |-> column]

Edge(source, target, callSite, kind, isResolved) ==
  [source |-> source, target |-> target, callSite |-> callSite,
   kind |-> kind, isResolved |-> isResolved]

NodeIds(nodes) == {nodes[i].id : i \in 1..Len(nodes)}

\* ------------------------------------------------------------------------
\* TypeScript extractor (ts-analyzer, ts-call-resolver)
\* ------------------------------------------------------------------------

DynamicPrefix == <<"[", "d", "y", "n", "a", "m", "i", "c", ":">>

\* The source text of the element-access callee of an "elem" site.
ElemText == <<"h", "[", "k", "]">>

\* TypeScriptAnalyzer.getVisibility
getVisibility(decl) ==
  LET marks == SelectSeq(decl.modifiers,
                 LAMBDA m : m \in {"export", "private", "protected", "public"})
  IN IF marks # <<>>
       THEN CASE Head(marks) = "export" -> "exported"
              [] Head(marks) = "private" -> "private"
              [] Head(marks) = "protected" -> "internal"
              [] OTHER -> "public"
     ELSE IF decl.statementExported THEN "exported"
     ELSE IF decl.syntax \in {"method", "constructor"} THEN "public"
     ELSE "module"

TsQualified(decl) ==
  IF decl.parentClass # <<>>
  THEN decl.parentClass \o <<".">> \o decl.name
  ELSE decl.name

TsId(decl) == decl.file \o Colon \o TsQualified(decl)

\* TypeScriptAnalyzer.createNode
createNode(decl) ==
  [id |-> TsId(decl),
   name |-> decl.name,
   qualifiedName |-> TsId(decl),
   filePath |-> decl.file,
   startLine |-> decl.startLine,
   endLine |-> decl.endLine,
   language |-> "typescript",
   kind |-> decl.syntax,
   visibility |-> getVisibility(decl),
   isEntryPoint |-> FALSE,
   unusedParameters |-> extractParameters(decl.funcNode).unusedParameters,
   packageOrModule |-> getPackageOrModule(decl.file),
   linesOfCode |-> decl.endLine - decl.startLine + 1,
   status |-> "dead",
   color |-> "red",
   decorators |-> decl.decorators]

\* TypeScriptAnalyzer.extractNodes over the source files that are in `files`
TsExtractNodes(files) ==
  LET kept == SelectSeq(TsVisited, LAMBDA d : InFiles(d.file, files))
  IN [i \in 1..Len(kept) |-> createNode(kept[i])]

\* symbolToNodeId: the declarations that received a node
TsHasNode(ix, files) == ix \in DeclIx /\ InFiles(TsDecls[ix].file, files)

\* resolveCallExpression: the edge of a call site, if any
resolveCallExpression(site, files) ==
  LET src == TsDecls[site.src] IN
    IF site.form = "elem"
      THEN <<Edge(TsId(src), DynamicPrefix \o ElemText \o <<"]">>,
                  CallSite(src.file, site.line, 1), "dynamic", FALSE)>>
    ELSE IF site.form = "call" /\ TsHasNode(site.tgt, files)
      THEN <<Edge(TsId(src), TsId(TsDecls[site.tgt]),
                  CallSite(src.file, site.line, 1),
                  IF TsDecls[site.tgt].syntax = "constructor" THEN "constructor"
                  ELSE IF TsDecls[site.tgt].syntax = "method" THEN "method"
                  ELSE "direct",
                  TRUE)>>
    ELSE <<>>

\* resolveCallbackReference: the edge of an identifier argument, if any
resolveCallbackReference(site, files) ==
  IF site.form = "arg" /\ TsHasNode(site.tgt, files)
  THEN <<Edge(TsId(TsDecls[site.src]), TsId(TsDecls[site.tgt]),
              CallSite(TsDecls[site.src].file, site.line, 1), "callback", TRUE)>>
  ELSE <<>>

\* resolveCallsInFunction: the edges of the body of one declaration
resolveCallsInFunction(ix, sites, files) ==
  LET inBody == SelectSeq(sites, LAMBDA st : st.form # "varinit" /\ st.src = ix)
  IN Concat([i \in 1..Len(inBody) |->
               resolveCallExpression(inBody[i], files)
               \o resolveCallbackReference(inBody[i], files)])

\* TypeScriptAnalyzer.extractEdges: every declaration that has a node
TsExtractEdges(sites, files) ==
  Concat([ix \in DeclIx |->
            IF TsHasNode(ix, files) THEN resolveCallsInFunction(ix, sites, files)
            ELSE <<>>])

\* TypeScriptAnalyzer.analyze
TsAnalyze(files, sites) ==
  [nodes |-> TsExtractNodes(files),
   edges |-> TsExtractEdges(sites, files),
   files |-> Len(files)]

\* ------------------------------------------------------------------------
\* Go extractor (go-helper/main.go, go-analyzer.ts)
\* ------------------------------------------------------------------------

NameInit == <<"i", "n", "i", "t">>
NameTest == <<"T", "e", "s", "t">>
NameBenchmark == <<"B", "e", "n", "c", "h", "m", "a", "r", "k">>
NameExample == <<"E", "x", "a", "m", "p", "l", "e">>
NameVarInit == <<"_", "_", "v", "a", "r", "_", "i", "n", "i", "t", "_", "_">>

UpperCase ==
  {"A", "B", "C", "D", "E", "F", "G", "H", "I", "J", "K", "L", "M",
   "N", "O", "P", "Q", "R", "S", "T", "U", "V", "W", "X", "Y", "Z"}

\* ast.IsExported
IsExported(name) == name # <<>> /\ Head(name) \in UpperCase

GoQualified(decl) ==
  IF decl.receiver # <<>>
  THEN decl.receiver \o <<".">> \o decl.name
  ELSE decl.name

GoId(decl) == decl.file \o Colon \o GoQualified(decl)

\* checkParametersTyped / checkParameters: the unused parameter names
GoUnusedParameters(decl) ==
  SelectSeq(decl.params,
            LAMBDA pName : pName # <<"_">> /\ pName \notin decl.bodyIdents)

\* buildNodeTyped / extractNodes (the node of one FuncDecl)
buildNodeTyped(decl) ==
  [id |-> GoId(decl),
   name |-> decl.name,
   qualifiedName |-> GoId(decl),
   filePath |-> decl.file,
   startLine |-> decl.startLine,
   endLine |-> decl.endLine,
   language |-> "go",
   kind |-> IF decl.receiver # <<>> THEN "method" ELSE "function",
   visibility |-> IF IsExported(decl.name) THEN "exported" ELSE "module",
   isEntryPoint |->
     \/ decl.name = NameMain /\ decl.pkgName = NameMain
     \/ decl.name = NameInit
     \/ StartsWith(decl.name, NameTest)
     \/ StartsWith(decl.name, NameBenchmark)
     \/ StartsWith(decl.name, NameExample),
   unusedParameters |-> GoUnusedParameters(decl),
   packageOrModule |-> IF FilepathDir(decl.file) = <<".">> THEN decl.pkgName
                       ELSE FilepathDir(decl.file),
   linesOfCode |-> decl.endLine - decl.startLine + 1,
   status |-> "dead",
   color |-> "red",
   decorators |-> <<>>]

\* The targets of the var/const initializers of file number f, first
\* occurrence first (varInitTargets with its seen map).
RECURSIVE Dedup(_)
Dedup(s) ==
  IF s = <<>> THEN <<>>
  ELSE LET rest == Dedup(SubSeq(s, 1, Len(s) - 1))
       IN IF s[Len(s)] \in Range(rest) THEN rest ELSE Append(rest, s[Len(s)])

varInitTargets(f, sites) ==
  LET here == SelectSeq(sites, LAMBDA st : st.form = "varinit" /\ st.src = f)
  IN Dedup([i \in 1..Len(here) |-> GoId(GoDecls[here[i].tgt])])

SyntheticId(relPath) == relPath \o Colon \o NameVarInit

\* The synthetic __var_init__ node of a file
syntheticNode(relPath, pkgName) ==
  [id |-> SyntheticId(relPath),
   name |-> NameVarInit,
   qualifiedName |-> SyntheticId(relPath),
   filePath |-> relPath,
   startLine |-> 1,
   endLine |-> 1,
   language |-> "go",
   kind |-> "init",
   visibility |-> "module",
   isEntryPoint |-> TRUE,
   unusedParameters |-> <<>>,
   packageOrModule |-> IF FilepathDir(relPath) = <<".">> THEN pkgName
                       ELSE FilepathDir(relPath),
   linesOfCode |-> 1,
   status |-> "entry",
   color |-> "blue",
   decorators |-> <<>>]

FilePkgName(f) ==
  (CHOOSE d \in Range(GoDecls) : d.file = TreeFiles[f]).pkgName

\* Phase 2b of analyzeWithTypes: synthetic nodes and varinit edges, per file
VarInitNodes(sites) ==
  LET fs == SelectSeq([f \in 1..Len(TreeFiles) |-> f],
                      LAMBDA f : varInitTargets(f, sites) # <<>>)
  IN [i \in 1..Len(fs) |-> syntheticNode(TreeFiles[fs[i]], FilePkgName(fs[i]))]

VarInitEdges(sites) ==
  Concat([f \in 1..Len(TreeFiles) |->
            LET targets == varInitTargets(f, sites) IN
              [i \in 1..Len(targets) |->
                 Edge(SyntheticId(TreeFiles[f]), targets[i],
                      CallSite(TreeFiles[f], 1, 1), "varinit", TRUE)]])

\* addMethodEdgesForType: edges from a constructor to the methods of the
\* named type it returns.  The Edge literal sets neither CallSite nor
\* IsResolved, so both keep Go's zero value.
addMethodEdgesForType(sourceID, typeName) ==
  LET methods == SelectSeq(GoDecls,
                   LAMBDA d : d.receiver = typeName /\ GoId(d) # sourceID)
  IN [i \in 1..Len(methods) |->
        Edge(sourceID, GoId(methods[i]), CallSite(<<>>, 0, 0), "provided", FALSE)]

\* Phase 2 of analyzeWithTypes: the named types that are not interfaces
concreteTypes ==
  LET kept == SelectSeq(GoTypes, LAMBDA t : ~t.isInterface)
  IN [i \in 1..Len(kept) |-> kept[i].name]

GoType(typeName) == CHOOSE t \in Range(GoTypes) : t.name = typeName

\* types.Implements(ct, iface) || types.Implements(*ct, iface)
Implements(ct, iface) ==
  iface.methods \subseteq {d.name : d \in {x \in Range(GoDecls) : x.receiver = ct}}

\* addMethodEdgesForInterface: the fan-out over every concrete type that
\* implements the returned interface
addMethodEdgesForInterface(sourceID, iface) ==
  LET impls == SelectSeq(concreteTypes, LAMBDA ct : Implements(ct, iface))
  IN Concat([i \in 1..Len(impls) |-> addMethodEdgesForType(sourceID, impls[i])])

\* The standalone functions that return a named type, by declaration index
Constructors ==
  SelectSeq([i \in 1..Len(GoDecls) |-> i],
            LAMBDA i : GoDecls[i].receiver = <<>> /\ GoDecls[i].returns # <<>>)

\* The orders in which `range objToNodeID` can visit the constructors: Go
\* leaves the iteration order of a map unspecified.
MapOrders ==
  {o \in [1..Len(Constructors) -> Range(Constructors)] :
     \A i, j \in 1..Len(Constructors) : i # j => o[i] # o[j]}

\* Phase 2c of analyzeWithTypes: constructor fan-out, visiting the
\* constructors in map order `order`
ProvidedEdges(order) ==
  Concat([i \in 1..Len(order) |->
            LET ctor == GoDecls[order[i]] IN
              IF GoType(ctor.returns).isInterface
              THEN addMethodEdgesForInterface(GoId(ctor), GoType(ctor.returns))
              ELSE addMethodEdgesForType(GoId(ctor), ctor.returns)])

\* resolveIfaceImpls: the declarations that implement the interface method
\* called at an "icall" site, in concreteTypes order
resolveIfaceImpls(methodName, iface) ==
  LET impls == SelectSeq(concreteTypes, LAMBDA ct : Implements(ct, iface))
  IN Concat([i \in 1..Len(impls) |->
               SelectSeq([k \in 1..Len(GoDecls) |-> k],
                         LAMBDA k : /\ GoDecls[k].receiver = impls[i]
                                    /\ GoDecls[k].name = methodName)])

\* The targets of one site of a body: the callee, or for an interface call
\* every implementation
SiteTargets(st) ==
  IF st.form = "icall" THEN resolveIfaceImpls(NameDo, GoType(NameI))
  ELSE <<st.tgt>>

ExpandSite(st) ==
  LET targets == SiteTargets(st)
  IN [i \in 1..Len(targets) |-> Site(st.src, st.form, targets[i], st.line)]

\* resolveCallsTyped: the edges of one function body; addEdge drops a
\* target already seen in this body, and a reference to the function itself
\* is skipped.
RECURSIVE addEdges(_, _, _)
addEdges(sourceDecl, bodySites, edges) ==
  IF bodySites = <<>> THEN edges
  ELSE LET st == Head(bodySites)
           target == GoId(GoDecls[st.tgt])
           kind == IF st.form = "ref" THEN "funcref"
                   ELSE IF st.form = "icall" THEN "interface"
                   ELSE IF GoDecls[st.tgt].receiver # <<>> THEN "method"
                   ELSE "direct"
           seen == {edges[i].target : i \in 1..Len(edges)}
       IN IF target = GoId(sourceDecl) \/ target \in seen
          THEN addEdges(sourceDecl, Tail(bodySites), edges)
          ELSE addEdges(sourceDecl, Tail(bodySites),
                 Append(edges,
                   Edge(GoId(sourceDecl), target,
                        CallSite(sourceDecl.file, st.line, 1), kind, TRUE)))

resolveCallsTyped(ix, sites) ==
  LET inBody == SelectSeq(sites, LAMBDA st : /\ st.form \in {"call", "ref", "icall"}
                                             /\ st.src = ix)
  IN addEdges(GoDecls[ix],
              Concat([i \in 1..Len(inBody) |-> ExpandSite(inBody[i])]),
              <<>>)

\* analyzeWithTypes: every package under the project root is loaded,
\* whatever the file list of the request says.
analyzeWithTypes(sites, order) ==
  [nodes |-> [i \in 1..Len(GoDecls) |-> buildNodeTyped(GoDecls[i])]
             \o VarInitNodes(sites),
   edges |-> VarInitEdges(sites) \o ProvidedEdges(order)
             \o Concat([i \in DeclIx |-> resolveCallsTyped(i, sites)])]

\* extractEdges of the AST-only fallback: a call is resolved by name through
\* funcMap (keyed by node id and by short name; a later node overwrites an
\* earlier one of the same name).  The callee of a method call x.m() is
\* looked up as "x.m", with x the receiver variable, which names no node.
funcMapLookup(key, nodes) ==
  LET hits == SelectSeq(nodes, LAMBDA n : n.id = key \/ n.name = key)
  IN IF hits = <<>> THEN <<>> ELSE hits[Len(hits)].id

AstEdgeOf(st, nodes) ==
  LET src == GoDecls[st.src]
      tgt == GoDecls[st.tgt]
      byId == funcMapLookup(src.file \o Colon \o tgt.name, nodes)
      targetID == IF byId # <<>> THEN byId ELSE funcMapLookup(tgt.name, nodes)
  IN IF st.form = "call" /\ tgt.receiver = <<>>
        /\ targetID # <<>> /\ targetID # GoId(src)
     THEN <<Edge(GoId(src), targetID, CallSite(src.file, st.line, 1),
                 "direct", TRUE)>>
     ELSE <<>>

\* analyzeFilesASTOnly: only the files of the request are parsed
analyzeFilesASTOnly(files, sites) ==
  LET kept == SelectSeq(GoDecls, LAMBDA d : InFiles(d.file, files))
      nodes == [i \in 1..Len(kept) |-> buildNodeTyped(kept[i])]
      walked == SelectSeq(sites, LAMBDA st : st.form \in {"call", "ref"}
                                   /\ InFiles(GoDecls[st.src].file, files))
  IN [nodes |-> nodes,
      edges |-> Concat([i \in 1..Len(walked) |-> AstEdgeOf(walked[i], nodes)])]

\* main of the helper: the type-aware path, or the AST fallback when the
\* typed load fails
GoHelper(files, sites, typedOk, order) ==
  IF typedOk THEN analyzeWithTypes(sites, order)
  ELSE analyzeFilesASTOnly(files, sites)

\* GoAnalyzer.analyze without the edge filter of lines 54-56: every edge of
\* the helper is kept
GoAnalyze_allEdges(files, sites, typedOk, order) ==
  IF files = <<>> THEN [nodes |-> <<>>, edges |-> <<>>, files |-> 0]
  ELSE LET parsed == GoHelper(files, sites, typedOk, order)
       IN [nodes |-> SelectSeq(parsed.nodes,
                               LAMBDA n : InFiles(n.filePath, files)),
           edges |-> parsed.edges,
           files |-> Len(files)]

\* GoAnalyzer.analyze: nodes outside the resolved files are dropped, and so
\* are edges that do not join two remaining nodes
GoAnalyze(files, sites, typedOk, order) ==
  IF files = <<>> THEN [nodes |-> <<>>, edges |-> <<>>, files |-> 0]
  ELSE LET parsed == GoHelper(files, sites, typedOk, order)
           nodes == SelectSeq(parsed.nodes, LAMBDA n : InFiles(n.filePath, files))
           nodeIds == NodeIds(nodes)
       IN [nodes |-> nodes,
           edges |-> SelectSeq(parsed.edges,
                       LAMBDA e : e.source \in nodeIds /\ e.target \in nodeIds),
           files |-> Len(files)]

\* ------------------------------------------------------------------------
\* Python extractor (py-analyzer.ts; the helper script analyze.py)
\* ------------------------------------------------------------------------

PyId(decl) == decl.file \o Colon \o decl.name

\* The helper's response: a node per def of the requested files, and an
\* edge per call whose callee is one of them (other callees are dropped).
PyHelper(files, sites) ==
  LET kept == SelectSeq(PyDecls, LAMBDA d : InFiles(d.file, files))
      walked == SelectSeq(sites,
                  LAMBDA st : /\ st.form = "call"
                              /\ InFiles(PyDecls[st.src].file, files)
                              /\ InFiles(PyDecls[st.tgt].file, files))
  IN [nodes |-> [i \in 1..Len(kept) |->
                   [id |-> PyId(kept[i]),
                    name |-> kept[i].name,
                    qualifiedName |-> PyId(kept[i]),
                    filePath |-> kept[i].file,
                    startLine |-> kept[i].startLine,
                    endLine |-> kept[i].endLine,
                    language |-> "python",
                    kind |-> "function",
                    visibility |-> IF StartsWith(kept[i].name, <<"_">>)
                                   THEN "private" ELSE "exported",
                    isEntryPoint |-> FALSE,
                    unusedParameters |-> kept[i].unused,
                    packageOrModule |-> getPackageOrModule(kept[i].file),
                    linesOfCode |-> kept[i].endLine - kept[i].startLine + 1,
                    status |-> "dead",
                    color |-> "red",
                    decorators |-> <<>>]],
      edges |-> [i \in 1..Len(walked) |->
                   Edge(PyId(PyDecls[walked[i].src]), PyId(PyDecls[walked[i].tgt]),
                        CallSite(PyDecls[walked[i].src].file, walked[i].line, 1),
                        "direct", TRUE)]]

\* PythonAnalyzer.analyze: the helper's nodes and edges are passed on as
\* they are
PyAnalyze(files, sites) ==
  IF files = <<>> THEN [nodes |-> <<>>, edges |-> <<>>, files |-> 0]
  ELSE LET parsed == PyHelper(files, sites)
       IN [nodes |-> parsed.nodes, edges |-> parsed.edges, files |-> Len(files)]

\* ------------------------------------------------------------------------
\* Entry-point matcher (entry-points.ts)
\* ------------------------------------------------------------------------

\* minimatch of one path segment: "*" matches any run of characters, "?"
\* any one character
RECURSIVE SegMatch(_, _)
SegMatch(p, s) ==
  IF p = <<>> THEN s = <<>>
  ELSE IF Head(p) = "*"
    THEN SegMatch(Tail(p), s) \/ (s # <<>> /\ SegMatch(p, Tail(s)))
  ELSE IF Head(p) = "?"
    THEN s # <<>> /\ SegMatch(Tail(p), Tail(s))
  ELSE s # <<>> /\ Head(s) = Head(p) /\ SegMatch(Tail(p), Tail(s))

\* A segment that starts with a dot is matched only by a pattern segment
\* that starts with a dot.
DotOk(p, s) == StartsWith(s, <<".">>) => StartsWith(p, <<".">>)

RECURSIVE PartsMatch(_, _)
PartsMatch(P, F) ==
  IF P = <<>> THEN F = <<>>
  ELSE IF Head(P) = <<"*", "*">>
    THEN \/ PartsMatch(Tail(P), F)
         \/ F # <<>> /\ ~StartsWith(Head(F), <<".">>) /\ PartsMatch(P, Tail(F))
  ELSE /\ F # <<>>
       /\ DotOk(Head(P), Head(F))
       /\ SegMatch(Head(P), Head(F))
       /\ PartsMatch(Tail(P), Tail(F))

\* minimatch(path, pattern)
minimatch(path, pattern) == PartsMatch(Split(pattern, "/"), Split(path, "/"))

FileRule(pattern) == [type |-> "file", pattern |-> pattern, name |-> <<>>]
ExportRule(pattern) == [type |-> "export", pattern |-> pattern, name |-> <<>>]
FunctionRule(name) == [type |-> "function", pattern |-> <<>>, name |-> name]
DecoratorRule(name) == [type |-> "decorator", pattern |-> <<>>, name |-> name]

\* isEntryPoint without the visibility test of the file and export rules
isEntryPoint_anyVisibility(node, config) ==
  CASE config.type \in {"file", "export"} ->
         minimatch(node.filePath, config.pattern)
    [] config.type = "function" ->
         config.name \in {node.name, node.qualifiedName, node.id}
    [] config.type = "decorator" ->
         \E i \in 1..Len(node.decorators) :
            \/ node.decorators[i] = config.name
            \/ Includes(node.decorators[i], config.name)
    [] OTHER -> FALSE

\* isEntryPoint: does a node match one configured rule
isEntryPoint(node, config) ==
  CASE config.type = "file" ->
         minimatch(node.filePath, config.pattern) /\ node.visibility = "exported"
    [] config.type = "function" ->
         \/ node.name = config.name
         \/ node.qualifiedName = config.name
         \/ node.id = config.name
    [] config.type = "decorator" ->
         \E i \in 1..Len(node.decorators) :
            \/ node.decorators[i] = config.name
            \/ Includes(node.decorators[i], config.name)
    [] config.type = "export" ->
         minimatch(node.filePath, config.pattern) /\ node.visibility = "exported"
    [] OTHER -> FALSE

\* autoDetectEntryPoint
autoDetectEntryPoint(node) ==
  \/ /\ node.language = "go"
     /\ \/ node.name = NameMain
        \/ node.name = NameInit
        \/ StartsWith(node.name, NameTest)
        \/ StartsWith(node.name, NameBenchmark)
        \/ StartsWith(node.name, NameExample)
  \/ /\ node.language = "python"
     /\ node.name = NameDunderMain

\* One pass of the loop body of matchEntryPoints: is the node marked
NodeMatches(node, entryPointConfigs) ==
  \/ \E i \in 1..Len(entryPointConfigs) : isEntryPoint(node, entryPointConfigs[i])
  \/ autoDetectEntryPoint(node)

\* matchEntryPoints: marks the nodes in place and returns the ids in
\* insertion order of the Set
matchEntryPoints(nodes, entryPointConfigs) ==
  LET marked == [i \in 1..Len(nodes) |->
                   IF NodeMatches(nodes[i], entryPointConfigs)
                   THEN [nodes[i] EXCEPT !.isEntryPoint = TRUE]
                   ELSE nodes[i]]
      hits == SelectSeq(nodes, LAMBDA n : NodeMatches(n, entryPointConfigs))
  IN [nodes |-> marked,
      entryIds |-> Dedup([i \in 1..Len(hits) |-> hits[i].id])]

\* The value of a `pattern` key that is missing from a rule of the
\* configuration file
Undefined == <<"undefined">>

\* assertValidPattern of minimatch: a pattern that is not a string makes
\* minimatch throw a TypeError
assertValidPattern(pattern) == pattern # Undefined

\* Does the rule loop of matchEntryPoints throw on `node`: the rules are
\* tried in order up to the first match, and a file or export rule calls
\* minimatch before anything else
RECURSIVE RuleLoopThrows(_, _, _)
RuleLoopThrows(node, entryPointConfigs, i) ==
  IF i > Len(entryPointConfigs) THEN FALSE
  ELSE IF /\ entryPointConfigs[i].type \in {"file", "export"}
          /\ ~assertValidPattern(entryPointConfigs[i].pattern) THEN TRUE
  ELSE IF isEntryPoint(node, entryPointConfigs[i]) THEN FALSE
  ELSE RuleLoopThrows(node, entryPointConfigs, i + 1)

\* Does matchEntryPoints(nodes, entryPointConfigs) throw
matchEntryPointsThrows(nodes, entryPointConfigs) ==
  /\ \E i \in 1..Len(entryPointConfigs) :
       ~assertValidPattern(entryPointConfigs[i].pattern)
  /\ \E k \in 1..Len(nodes) : RuleLoopThrows(nodes[k], entryPointConfigs, 1)

\* ------------------------------------------------------------------------
\* Reachability engine (entry-points.ts)
\* ------------------------------------------------------------------------

\* The adjacency list of a node id: the targets of its outgoing edges, in
\* edge order
adjacency(edges, nodeId) ==
  LET out == SelectSeq(edges, LAMBDA e : e.source = nodeId)
  IN [i \in 1..Len(out) |-> out[i].target]

\* The BFS loop of propagateEntryPoints
RECURSIVE bfs(_, _, _)
bfs(edges, queue, reachable) ==
  IF queue = <<>> THEN reachable
  ELSE LET nodeId == Head(queue) IN
    IF nodeId \in reachable THEN bfs(edges, Tail(queue), reachable)
    ELSE LET now == reachable \cup {nodeId}
             neighbors == adjacency(edges, nodeId)
         IN bfs(edges,
                Tail(queue) \o SelectSeq(neighbors, LAMBDA t : t \notin now),
                now)

\* classify with the reachability test ahead of the isEntryPoint test
classify_reachableFirst(node, isReachable) ==
  IF isReachable
    THEN [node EXCEPT !.status = "live",
                      !.color = IF Len(node.unusedParameters) > 0
                                THEN "yellow" ELSE "green"]
  ELSE IF node.isEntryPoint
    THEN [node EXCEPT !.status = "entry", !.color = "blue"]
  ELSE [node EXCEPT !.status = "dead",
                    !.color = IF Len(node.unusedParameters) > 0
                              THEN "orange" ELSE "red"]

\* classify that also clears the unused-parameter list of an entry point
classify_clearsUnused(node, isReachable) ==
  IF node.isEntryPoint
    THEN [node EXCEPT !.status = "entry", !.color = "blue",
                      !.unusedParameters = <<>>]
  ELSE IF isReachable
    THEN [node EXCEPT !.status = "live",
                      !.color = IF Len(node.unusedParameters) > 0
                                THEN "yellow" ELSE "green"]
  ELSE [node EXCEPT !.status = "dead",
                    !.color = IF Len(node.unusedParameters) > 0
                              THEN "orange" ELSE "red"]

\* classify with the colours of the dead branch exchanged
classify_deadColorsSwapped(node, isReachable) ==
  IF node.isEntryPoint
    THEN [node EXCEPT !.status = "entry", !.color = "blue"]
  ELSE IF isReachable
    THEN [node EXCEPT !.status = "live",
                      !.color = IF Len(node.unusedParameters) > 0
                                THEN "yellow" ELSE "green"]
  ELSE [node EXCEPT !.status = "dead",
                    !.color = IF Len(node.unusedParameters) > 0
                              THEN "red" ELSE "orange"]

\* The classification of one node
classify(node, isReachable) ==
  IF node.isEntryPoint
    THEN [node EXCEPT !.status = "entry", !.color = "blue"]
  ELSE IF isReachable
    THEN [node EXCEPT !.status = "live",
                      !.color = IF Len(node.unusedParameters) > 0
                                THEN "yellow" ELSE "green"]
  ELSE [node EXCEPT !.status = "dead",
                    !.color = IF Len(node.unusedParameters) > 0
                              THEN "orange" ELSE "red"]

\* propagateEntryPoints that also counts a node with an incoming edge as
\* reachable
propagateEntryPoints_incoming(nodes, edges, entryPointIds) ==
  LET reachable == bfs(edges, entryPointIds, {})
                     \cup {edges[k].target : k \in 1..Len(edges)}
  IN [i \in 1..Len(nodes) |-> classify(nodes[i], nodes[i].id \in reachable)]

\* propagateEntryPoints: the node list after classification
propagateEntryPoints(nodes, edges, entryPointIds) ==
  LET reachable == bfs(edges, entryPointIds, {})
  IN [i \in 1..Len(nodes) |-> classify(nodes[i], nodes[i].id \in reachable)]

EntryId == <<"_", "_", "e", "n", "t", "r", "y", "_", "_">>

\* createEntryNode
createEntryNode(entryPointIds) ==
  [id |-> EntryId, targets |-> entryPointIds]

\* ------------------------------------------------------------------------
\* The pipeline (graph-builder.ts: runAnalysis)
\* ------------------------------------------------------------------------

\* The entry-point rules a configuration draws from.
RuleUniverse ==
  << FunctionRule(NameMain),
     FileRule(<<"s", "/", "*">>),
     DecoratorRule(<<"g", "e", "t">>),
     ExportRule(<<"*", "*", "/", "b">>),
     FunctionRule(FileB \o Colon \o NameHelp) >>

EntryPointChoices ==
  {[i \in 1..Cardinality(S) |-> RuleUniverse[Ascending(S)[i]]] :
     S \in SubsetsUpTo(Len(RuleUniverse), MaxRules)}

Languages == {"typescript", "go", "python"}

\* buildClusters: one cluster per packageOrModule, in the order in which the
\* Map first saw them.  parent is <<>> for null and <<id>> otherwise.
buildClusters(nodes) ==
  LET ids == Dedup([i \in 1..Len(nodes) |-> nodes[i].packageOrModule])
  IN [c \in 1..Len(ids) |->
        LET parts == Split(ids[c], "/")
            members == SelectSeq(nodes, LAMBDA n : n.packageOrModule = ids[c])
        IN [id |-> ids[c],
            label |-> IF parts[Len(parts)] # <<>> THEN parts[Len(parts)]
                      ELSE ids[c],
            nodeIds |-> [i \in 1..Len(members) |-> members[i].id],
            parent |-> IF Len(parts) > 1
                       THEN <<Join(SubSeq(parts, 1, Len(parts) - 1), Slash)>>
                       ELSE <<>>]]

\* Math.round((count / total) * 10000) / 100, in hundredths of a percent
Percentage(count, total) ==
  IF total > 0 THEN (2 * count * 10000 + total) \div (2 * total) ELSE 0

\* The byPackage histogram: the packages in first-seen order, each with
\* its number of nodes
ByPackage(nodes) ==
  LET pkgs == Dedup([i \in 1..Len(nodes) |-> nodes[i].packageOrModule])
  IN [k \in 1..Len(pkgs) |->
        [package |-> pkgs[k],
         count |-> Len(SelectSeq(nodes, LAMBDA n : n.packageOrModule = pkgs[k]))]]

\* Array.prototype.sort with (a, b) => b.linesOfCode - a.linesOfCode: a
\* stable sort, so nodes of equal size keep the order of the node list
RECURSIVE SortByLinesOfCode(_)
SortByLinesOfCode(nodes) ==
  IF nodes = <<>> THEN <<>>
  ELSE LET sorted == SortByLinesOfCode(SubSeq(nodes, 1, Len(nodes) - 1))
           last == nodes[Len(nodes)]
           ahead == SelectSeq(sorted, LAMBDA n : n.linesOfCode >= last.linesOfCode)
           behind == SelectSeq(sorted, LAMBDA n : n.linesOfCode < last.linesOfCode)
       IN ahead \o <<last>> \o behind

\* The length of the largestFunctions list
LargestLimit == 10

\* computeStats with the dead count taken as everything that is not live
computeStats_notLive(nodes, entryPointIds) ==
  LET deadNodes == SelectSeq(nodes, LAMBDA n : n.status # "live")
      unusedParamNodes == SelectSeq(nodes, LAMBDA n : Len(n.unusedParameters) > 0)
      total == Len(nodes)
  IN [deadFunctions |->
        [count |-> Len(deadNodes),
         percentage |-> Percentage(Len(deadNodes), total),
         byPackage |-> ByPackage(deadNodes)],
      unusedParameters |->
        [count |-> Len(unusedParamNodes),
         percentage |-> Percentage(Len(unusedParamNodes), total),
         byPackage |-> ByPackage(unusedParamNodes)],
      entryPoints |->
        [count |-> Len(entryPointIds), functions |-> entryPointIds],
      largestFunctions |-> <<>>]

\* computeStats
computeStats(nodes, entryPointIds) ==
  LET deadNodes == SelectSeq(nodes, LAMBDA n : n.status = "dead")
      unusedParamNodes == SelectSeq(nodes, LAMBDA n : Len(n.unusedParameters) > 0)
      total == Len(nodes)
      bySize == SortByLinesOfCode(nodes)
      top == SubSeq(bySize, 1, IF total < LargestLimit THEN total ELSE LargestLimit)
  IN [deadFunctions |->
        [count |-> Len(deadNodes),
         percentage |-> Percentage(Len(deadNodes), total),
         byPackage |-> ByPackage(deadNodes)],
      unusedParameters |->
        [count |-> Len(unusedParamNodes),
         percentage |-> Percentage(Len(unusedParamNodes), total),
         byPackage |-> ByPackage(unusedParamNodes)],
      entryPoints |->
        [count |-> Len(entryPointIds), functions |-> entryPointIds],
      largestFunctions |->
        [i \in 1..Len(top) |->
           [id |-> top[i].id, linesOfCode |-> top[i].linesOfCode]]]

\* Steps 2 to 7 of runAnalysis, which run without interruption once the
\* analyzer has returned; startTime and now are the two clock readings
runAnalysis(result, cfg, startTime, now) ==
  LET matched == matchEntryPoints(result.nodes, cfg.entryPoints)
      nodes == propagateEntryPoints(matched.nodes, result.edges, matched.entryIds)
  IN [metadata |->
        [generatedAt |-> now,
         language |-> cfg.language,
         analysisTimeMs |-> now - startTime,
         totalFiles |-> result.files,
         totalFunctions |-> Len(nodes),
         totalEdges |-> Len(result.edges),
         totalDeadFunctions |->
           Len(SelectSeq(nodes, LAMBDA n : n.status = "dead")),
         totalUnusedParameters |->
           Len(SelectSeq(nodes, LAMBDA n : Len(n.unusedParameters) > 0)),
         config |-> cfg],
      nodes |-> nodes,
      edges |-> result.edges,
      entryNode |-> createEntryNode(matched.entryIds),
      clusters |-> buildClusters(nodes),
      stats |-> computeStats(nodes, matched.entryIds)]

VARIABLES
  pc,         \* "idle", "analyzing" (awaiting analyzer.analyze()), "done"
              \* or "failed" (runAnalysis rejected)
  config,     \* the ResolvedConfig of the run: language, resolved files, entryPoints
  result,     \* the AnalyzerResult as analyzer.analyze() returned it
  graph,      \* the CodeGraph returned by runAnalysis
  clock,      \* the wall clock, in milliseconds
  startTime,  \* the clock reading taken at the start of runAnalysis
  project,    \* a project on disk that the analyze command is run on
  runs,       \* the artifacts of the runs on `project` so far, oldest first
  funcNode,   \* the function handed to extractParameters
  extracted,  \* the value extractParameters returned for funcNode
  cli,        \* the analyze command: "idle", "awaiting" (runAnalysis) or "exited"
  helper,     \* the helper child process: "none", "running", "closed" or "failed"
  helperCode, \* the exit code the helper closed with, -1 before it closes
  settled,    \* the promise of runAnalysis: "pending", "resolved" or "rejected"
  output,     \* the output file: <<>> before writeOutput, then <<graph>>
  exitCode,   \* the exit code of the process, -1 while it runs
  bfsPc,      \* propagateEntryPoints: "idle", "loop" (in the BFS) or "done"
  bfsEdges,   \* its argument edges
  bfsEntry,   \* its argument entryPointIds
  queue,      \* the BFS queue
  reachable,  \* the set of ids the BFS has visited
  expansions, \* the ids whose adjacency list was read, in that order
  iterations, \* the number of iterations of the while loop so far
  store,      \* the GraphStore of the viewer: nodes, edges, edgeSourceIndex
  call,       \* the activation of getReachableFrom: pc, nodeId, queue, visited
  watcher,    \* startWatcher: debounceTimer (0 is null), analyzing, pendingChanges
  timers,     \* the timers that are set: pairs <<handle, milliseconds left>>
  inFlight,   \* the runAnalysis calls of the watcher that have not settled
  served,     \* startServer: the run whose graph /api/graph answers with
  broadcasts, \* the runs whose graph was sent as a graph-update, oldest first
  hist        \* what happened so far: counts of events, timers, runs, ...

runVars == <<project, runs>>

pipelineVars == <<pc, config, result, graph, clock, startTime>>
paramVars == <<funcNode, extracted>>
cliVars == <<cli, helper, helperCode, settled, output, exitCode>>
bfsVars == <<bfsPc, bfsEdges, bfsEntry, queue, reachable, expansions,
             iterations>>
storeVars == <<store, call>>
watchVars == <<watcher, timers, inFlight, served, broadcasts, hist>>
otherVars == <<cliVars, bfsVars, storeVars, watchVars>>

vars == <<pipelineVars, runVars, paramVars, otherVars>>

NoResult == [nodes |-> <<>>, edges |-> <<>>, files |-> 0]
NoConfig == [language |-> "typescript", files |-> <<>>, entryPoints |-> <<>>]
NoGraph == runAnalysis(NoResult, NoConfig, 0, 0)
NotExtracted == [parameters |-> <<>>, unusedParameters |-> <<>>]
NoProject ==
  [language |-> "typescript", files |-> <<>>, sites |-> <<>>, typedOk |-> TRUE]

PipelineInit ==
  /\ pc = "idle"
  /\ config = NoConfig
  /\ result = NoResult
  /\ graph = NoGraph
  /\ clock = 0
  /\ startTime = 0

\* The analyze command has not been started
CliIdle ==
  /\ cli = "idle"
  /\ helper = "none"
  /\ helperCode = -1
  /\ settled = "pending"
  /\ output = <<>>
  /\ exitCode = -1

\* propagateEntryPoints has not been called
BfsIdle ==
  /\ bfsPc = "idle"
  /\ bfsEdges = <<>>
  /\ bfsEntry = <<>>
  /\ queue = <<>>
  /\ reachable = {}
  /\ expansions = <<>>
  /\ iterations = 0

\* A Map of the store: the keys that were set, each with its value
EmptyMap == [k \in {} |-> <<>>]

\* GraphStore as constructed, and no call of getReachableFrom
StoreIdle ==
  /\ store = [loaded |-> FALSE, nodes |-> <<>>, edges |-> <<>>,
              edgeSourceIndex |-> EmptyMap]
  /\ call = [pc |-> "idle", nodeId |-> <<>>, queue |-> <<>>, visited |-> {},
             iterations |-> 0]

\* startServer has run the first analysis (run 0) and startWatcher has
\* set up its three variables; nothing has happened since
WatchIdle ==
  /\ watcher = [debounceTimer |-> 0, analyzing |-> FALSE, pendingChanges |-> {}]
  /\ timers = {}
  /\ inFlight = {}
  /\ served = 0
  /\ broadcasts = <<>>
  /\ hist = [events |-> 0, handles |-> 0, starts |-> 0, startsSinceEvent |-> 0,
             gapAtStart |-> 0, sinceLast |-> 0, lastGood |-> 0, failures |-> 0]

OtherIdle == CliIdle /\ BfsIdle /\ StoreIdle /\ WatchIdle

\* One run of the pipeline, its steps taken one at a time within one
\* reading of the clock
Init ==
  /\ PipelineInit
  /\ OtherIdle
  /\ project = NoProject
  /\ runs = <<>>
  /\ funcNode = FuncNode(<<>>, FALSE, {})
  /\ extracted = NotExtracted

\* runAnalysis(config) is called and awaits the analyzer
RunAnalysis ==
  /\ pc = "idle"
  /\ \E language \in Languages, files \in FileChoices,
        entryPoints \in EntryPointChoices :
       config' = [language |-> language, files |-> files,
                  entryPoints |-> entryPoints]
  /\ startTime' = clock
  /\ pc' = "analyzing"
  /\ UNCHANGED <<result, graph, clock, runVars, paramVars, otherVars>>

\* The analyzer returns r and runAnalysis runs to its return statement
Complete(r) ==
  /\ result' = r
  /\ IF matchEntryPointsThrows(r.nodes, config.entryPoints)
       THEN pc' = "failed" /\ UNCHANGED graph
       ELSE pc' = "done" /\ graph' = runAnalysis(r, config, startTime, clock)
  /\ UNCHANGED <<config, clock, startTime, runVars, paramVars, otherVars>>

AnalyzeTypeScript ==
  /\ pc = "analyzing"
  /\ config.language = "typescript"
  /\ \E sites \in SiteChoices("typescript") :
       Complete(TsAnalyze(config.files, sites))

AnalyzeGo ==
  /\ pc = "analyzing"
  /\ config.language = "go"
  /\ \E sites \in SiteChoices("go"), typedOk \in BOOLEAN :
       \* only the typed path ranges over objToNodeID
       \E order \in (IF typedOk THEN MapOrders
                                 ELSE {CHOOSE o \in MapOrders : TRUE}) :
         Complete(GoAnalyze(config.files, sites, typedOk, order))

AnalyzePython ==
  /\ pc = "analyzing"
  /\ config.language = "python"
  /\ \E sites \in SiteChoices("python") :
       Complete(PyAnalyze(config.files, sites))

Next ==
  \/ RunAnalysis
  \/ AnalyzeTypeScript
  \/ AnalyzeGo
  \/ AnalyzePython

Spec == Init /\ [][Next]_vars

\* ------------------------------------------------------------------------
\* The pipeline run on a configuration file with rules that lack a pattern
\* ------------------------------------------------------------------------

MatchRuleUniverse ==
  << FunctionRule(NameMain),
     FileRule(Undefined),
     FileRule(<<"s", "/", "*">>),
     ExportRule(Undefined) >>

MatchEntryPointChoices ==
  {[i \in 1..Cardinality(S) |-> MatchRuleUniverse[Ascending(S)[i]]] :
     S \in SubsetsUpTo(Len(MatchRuleUniverse), MaxRules)}

\* runAnalysis(config) is called with rules taken from the configuration
\* file as they are (resolveConfig does not validate them)
RunAnalysisUnvalidated ==
  /\ pc = "idle"
  /\ \E language \in Languages, files \in FileChoices,
        entryPoints \in MatchEntryPointChoices :
       config' = [language |-> language, files |-> files,
                  entryPoints |-> entryPoints]
  /\ startTime' = clock
  /\ pc' = "analyzing"
  /\ UNCHANGED <<result, graph, clock, runVars, paramVars, otherVars>>

MatchNext ==
  \/ RunAnalysisUnvalidated
  \/ AnalyzeTypeScript
  \/ AnalyzeGo
  \/ AnalyzePython

SpecMatch == Init /\ [][MatchNext]_vars

\* ------------------------------------------------------------------------
\* The parameter checker applied to one function
\* ------------------------------------------------------------------------

BindingChoices ==
  { Ident(PA),
    Ident(PUnder),
    Pattern("obj", <<Ident(PA), Ident(PB)>>),
    Pattern("obj", <<Ident(PA), Ident(PUnder)>>),
    Pattern("arr", <<Ident(PA), Omitted, Ident(PB)>>),
    Pattern("obj", <<Ident(PA), Pattern("obj", <<Ident(PB), Ident(PUnder)>>)>>) }

RECURSIVE SeqsUpTo(_, _)
SeqsUpTo(S, n) ==
  IF n = 0 THEN {<<>>}
  ELSE LET shorter == SeqsUpTo(S, n - 1)
       IN shorter \cup {Append(q, x) : q \in shorter, x \in S}

OccurrenceChoices ==
  { Expr(PA), Expr(PB),
    [text |-> PB, ctx |-> "propname"],
    [text |-> PA, ctx |-> "param"],
    [text |-> PB, ctx |-> "decl"] }

FuncNodeChoices ==
  {FuncNode(ps, TRUE, body) :
     ps \in SeqsUpTo(BindingChoices, MaxParams) \ {<<>>},
     body \in SUBSET OccurrenceChoices}
  \cup
  {FuncNode(ps, FALSE, {}) : ps \in SeqsUpTo(BindingChoices, MaxParams) \ {<<>>}}

ParamsInit ==
  /\ PipelineInit
  /\ OtherIdle
  /\ project = NoProject
  /\ runs = <<>>
  /\ funcNode \in FuncNodeChoices
  /\ extracted = NotExtracted

ExtractParameters ==
  /\ extracted = NotExtracted
  /\ extracted' = extractParameters(funcNode)
  /\ UNCHANGED <<funcNode, pipelineVars, runVars, otherVars>>

ParamsNext == ExtractParameters

SpecParams == ParamsInit /\ [][ParamsNext]_vars

\* ------------------------------------------------------------------------
\* Repeated runs of the analyze command on one project
\* ------------------------------------------------------------------------

\* The number of runs on one project
MaxRuns == 2

\* The last reading of the clock
MaxClock == 1

\* The projects: a language, the files include/exclude resolve to, the
\* call sites of the tree, and whether the typed package load succeeds
ProjectChoices ==
  UNION {{[language |-> l, files |-> f, sites |-> st, typedOk |-> t] :
            f \in FileChoices, st \in SiteChoices(l),
            t \in IF l = "go" THEN BOOLEAN ELSE {TRUE}} :
         l \in Languages}

\* The resolved configuration of a project: no configured entry points
ConfigOf(p) ==
  [language |-> p.language, files |-> p.files, entryPoints |-> <<>>]

\* createAnalyzer(config).analyze() on the project; `order` is the map
\* iteration order the Go helper happens to see
Extract(p, order) ==
  CASE p.language = "typescript" -> TsAnalyze(p.files, p.sites)
    [] p.language = "go" -> GoAnalyze(p.files, p.sites, p.typedOk, order)
    [] OTHER -> PyAnalyze(p.files, p.sites)

RunsInit ==
  /\ PipelineInit
  /\ OtherIdle
  /\ project \in ProjectChoices
  /\ runs = <<>>
  /\ funcNode = FuncNode(<<>>, FALSE, {})
  /\ extracted = NotExtracted

\* The analyze command runs from start to end on the project; the clock
\* may advance while it runs
Analyze ==
  /\ Len(runs) < MaxRuns
  /\ \E order \in MapOrders, now \in clock..MaxClock :
       /\ runs' = Append(runs, runAnalysis(Extract(project, order),
                                           ConfigOf(project), clock, now))
       /\ clock' = now
  /\ UNCHANGED <<pc, config, result, graph, startTime, project, paramVars,
               otherVars>>

RunsNext == Analyze

SpecRuns == RunsInit /\ [][RunsNext]_vars

\* ------------------------------------------------------------------------
\* The analyze command and the helper child process (cli, go-analyzer.ts,
\* py-analyzer.ts)
\* ------------------------------------------------------------------------

\* The exit codes a helper closes with
ExitCodes == {0, 1, 2}

\* Go and Python projects with at least one resolved file spawn a helper
SpawnsHelper(p) == p.language \in {"go", "python"} /\ p.files # <<>>

HelperOutcome_anyCode(code, wellFormed) ==
  IF ~wellFormed THEN "rejected" ELSE "resolved"

\* The close handler of the child process, followed by JSON.parse of what
\* the helper wrote: the promise of analyze() rejects on a non-zero code
\* and on output that does not parse
HelperOutcome(code, wellFormed) ==
  IF code # 0 THEN "rejected"
  ELSE IF ~wellFormed THEN "rejected"
  ELSE "resolved"

CliInit ==
  /\ PipelineInit
  /\ project \in ProjectChoices
  /\ runs = <<>>
  /\ funcNode = FuncNode(<<>>, FALSE, {})
  /\ extracted = NotExtracted
  /\ CliIdle
  /\ BfsIdle
  /\ StoreIdle
  /\ WatchIdle

\* The action handler of `analyze` up to `await runAnalysis(config)`: the
\* TypeScript analyzer and an analyzer without files finish without a
\* child process, the others spawn the helper and wait for it
CliAnalyze ==
  /\ cli = "idle"
  /\ cli' = "awaiting"
  /\ IF SpawnsHelper(project)
       THEN /\ helper' = "running"
            /\ UNCHANGED <<settled, graph>>
       ELSE /\ settled' = "resolved"
            /\ \E order \in MapOrders :
                 graph' = runAnalysis(Extract(project, order),
                                      ConfigOf(project), clock, clock)
            /\ UNCHANGED helper
  /\ UNCHANGED <<pc, config, result, clock, startTime, runVars, paramVars,
                 helperCode, output, exitCode, bfsVars, storeVars, watchVars>>

\* proc.on('close'): the helper exits with `code`, having written output
\* that parses or does not
HelperClose ==
  /\ helper = "running"
  /\ \E code \in ExitCodes, wellFormed \in BOOLEAN :
       /\ helper' = "closed"
       /\ helperCode' = code
       /\ settled' = HelperOutcome(code, wellFormed)
       /\ IF HelperOutcome(code, wellFormed) = "resolved"
            THEN \E order \in MapOrders :
                   graph' = runAnalysis(Extract(project, order),
                                        ConfigOf(project), clock, clock)
            ELSE UNCHANGED graph
  /\ UNCHANGED <<pc, config, result, clock, startTime, runVars, paramVars,
                 cli, output, exitCode, bfsVars, storeVars, watchVars>>

\* proc.on('error'): the helper could not be spawned
HelperError ==
  /\ helper = "running"
  /\ helper' = "failed"
  /\ settled' = "rejected"
  /\ UNCHANGED <<pipelineVars, runVars, paramVars, cli, helperCode, output,
                 exitCode, bfsVars, storeVars, watchVars>>

\* The action handler after the await: writeOutput and a normal end, or
\* the catch block and process.exit(1)
CliResume ==
  /\ cli = "awaiting"
  /\ settled # "pending"
  /\ cli' = "exited"
  /\ IF settled = "resolved"
       THEN output' = <<graph>> /\ exitCode' = 0
       ELSE exitCode' = 1 /\ UNCHANGED output
  /\ UNCHANGED <<pipelineVars, runVars, paramVars, helper, helperCode,
                 settled, bfsVars, storeVars, watchVars>>

CliNext ==
  \/ CliAnalyze
  \/ HelperClose
  \/ HelperError
  \/ CliResume

\* The event loop runs the continuation of the await once the promise has
\* settled; nothing makes a child process exit
SpecCli ==
  /\ CliInit
  /\ [][CliNext]_vars
  /\ WF_vars(CliResume)

\* ------------------------------------------------------------------------
\* The BFS of propagateEntryPoints, one iteration of its loop at a time
\* ------------------------------------------------------------------------

\* Number of edges in the edge list handed to propagateEntryPoints
MaxBfsEdges == 3

IdA == <<"a">>
IdB == <<"b">>

\* The ids of the graph: two node ids and a sentinel that no node carries
BfsIds == {IdA, IdB, DynamicPrefix \o <<"x", "]">>}

BfsEdgeChoices ==
  {Edge(src, tgt, CallSite(<<>>, 1, 1), "direct", TRUE) :
     src \in {IdA, IdB}, tgt \in BfsIds}

\* matchEntryPoints returns the ids of a Set: no id twice
BfsEntryChoices == {<<>>, <<IdA>>, <<IdB>>, <<IdA, IdB>>, <<IdB, IdA>>}

BfsInit ==
  /\ PipelineInit
  /\ project = NoProject
  /\ runs = <<>>
  /\ funcNode = FuncNode(<<>>, FALSE, {})
  /\ extracted = NotExtracted
  /\ CliIdle
  /\ StoreIdle
  /\ WatchIdle
  /\ bfsPc = "idle"
  /\ bfsEdges \in SeqsUpTo(BfsEdgeChoices, MaxBfsEdges)
  /\ bfsEntry \in BfsEntryChoices
  /\ queue = <<>>
  /\ reachable = {}
  /\ expansions = <<>>
  /\ iterations = 0

\* The test of line 102 that never skips
BfsSkips_never(nodeId, seen) ==
  FALSE

\* `if (reachable.has(nodeId)) continue`
BfsSkips(nodeId, seen) ==
  nodeId \in seen

\* propagateEntryPoints is called: the queue starts as a copy of
\* entryPointIds
BfsStart ==
  /\ bfsPc = "idle"
  /\ bfsPc' = "loop"
  /\ queue' = bfsEntry
  /\ reachable' = {}
  /\ UNCHANGED <<pipelineVars, runVars, paramVars, cliVars, storeVars,
                 watchVars, bfsEdges,
                 bfsEntry, expansions, iterations>>

\* One iteration of `while (queue.length > 0)`
BfsStep ==
  /\ bfsPc = "loop"
  /\ queue # <<>>
  /\ iterations' = iterations + 1
  /\ LET nodeId == Head(queue) IN
       IF BfsSkips(nodeId, reachable)
         THEN /\ queue' = Tail(queue)
              /\ UNCHANGED <<reachable, expansions>>
         ELSE LET now == reachable \cup {nodeId}
                  neighbors == adjacency(bfsEdges, nodeId)
              IN /\ reachable' = now
                 /\ expansions' = Append(expansions, nodeId)
                 /\ queue' = Tail(queue)
                      \o SelectSeq(neighbors, LAMBDA t : t \notin now)
  /\ UNCHANGED <<pipelineVars, runVars, paramVars, cliVars, storeVars,
                 watchVars, bfsPc, bfsEdges, bfsEntry>>

\* The loop ends on an empty queue
BfsEnd ==
  /\ bfsPc = "loop"
  /\ queue = <<>>
  /\ bfsPc' = "done"
  /\ UNCHANGED <<pipelineVars, runVars, paramVars, cliVars, storeVars,
                 watchVars, bfsEdges,
                 bfsEntry, queue, reachable, expansions, iterations>>

BfsNext ==
  \/ BfsStart
  \/ BfsStep
  \/ BfsEnd

SpecBfs == BfsInit /\ [][BfsNext]_vars

\* ------------------------------------------------------------------------
\* GraphStore of the viewer (graph-store.ts)
\* ------------------------------------------------------------------------

\* Number of edges of a loaded graph
MaxStoreEdges == 3

StoreNode(id) == [id |-> id]

StoreSentinel == DynamicPrefix \o <<"x", "]">>

\* The loaded graphs: artifacts of one or two nodes whose edges start at a
\* node and end at a node or at a sentinel
StoreGraphChoices ==
  UNION {{[nodes |-> [i \in 1..Len(ids) |-> StoreNode(ids[i])], edges |-> es] :
            es \in SeqsUpTo({Edge(src, tgt, CallSite(<<>>, 1, 1), "direct", TRUE) :
                               src \in Range(ids),
                               tgt \in Range(ids) \cup {StoreSentinel}},
                            MaxStoreEdges)} :
         ids \in {<<IdA>>, <<IdA, IdB>>}}

\* map.get(key) || []
GetOrEmpty(map, key) == IF key \in DOMAIN map THEN map[key] ELSE <<>>

\* The edge index loop of buildIndices keyed by edge.target
RECURSIVE IndexEdges_byTarget(_, _, _, _)
IndexEdges_byTarget(nodes, edges, i, index) ==
  IF i > Len(edges) THEN index
  ELSE IF edges[i].source \in NodeIds(nodes) /\ edges[i].target \in NodeIds(nodes)
    THEN LET key == edges[i].target
             srcEdges == Append(GetOrEmpty(index, key), i)
         IN IndexEdges_byTarget(nodes, edges, i + 1,
              [k \in DOMAIN index \cup {key} |->
                 IF k = key THEN srcEdges ELSE index[k]])
  ELSE IndexEdges_byTarget(nodes, edges, i + 1, index)

\* The edge index loop of buildIndices: edge i is indexed under its source
\* when both its ends are ids of nodes
RECURSIVE IndexEdges(_, _, _, _)
IndexEdges(nodes, edges, i, index) ==
  IF i > Len(edges) THEN index
  ELSE IF edges[i].source \in NodeIds(nodes) /\ edges[i].target \in NodeIds(nodes)
    THEN LET key == edges[i].source
             srcEdges == Append(GetOrEmpty(index, key), i)
         IN IndexEdges(nodes, edges, i + 1,
              [k \in DOMAIN index \cup {key} |->
                 IF k = key THEN srcEdges ELSE index[k]])
  ELSE IndexEdges(nodes, edges, i + 1, index)

StoreInit ==
  /\ PipelineInit
  /\ project = NoProject
  /\ runs = <<>>
  /\ funcNode = FuncNode(<<>>, FALSE, {})
  /\ extracted = NotExtracted
  /\ CliIdle
  /\ BfsIdle
  /\ StoreIdle
  /\ WatchIdle

\* load(graph): the fields are replaced and the indices, cleared first,
\* are rebuilt, so a second load leaves the store as a first one does
Load ==
  /\ ~store.loaded
  /\ \E g \in StoreGraphChoices :
       store' = [loaded |-> TRUE, nodes |-> g.nodes, edges |-> g.edges,
                 edgeSourceIndex |-> IndexEdges(g.nodes, g.edges, 1, EmptyMap)]
  /\ call' = [pc |-> "idle", nodeId |-> <<>>, queue |-> <<>>, visited |-> {},
              iterations |-> 0]
  /\ UNCHANGED <<pipelineVars, runVars, paramVars, cliVars, bfsVars, watchVars>>

\* getReachableFrom(nodeId) is called
GetReachableFrom ==
  /\ store.loaded
  /\ call.pc = "idle"
  /\ \E nodeId \in {IdA, IdB, StoreSentinel} :
       call' = [pc |-> "loop", nodeId |-> nodeId, queue |-> <<nodeId>>,
                visited |-> {}, iterations |-> 0]
  /\ UNCHANGED <<pipelineVars, runVars, paramVars, cliVars, bfsVars, watchVars,
                 store>>

\* One iteration of `while (queue.length > 0)` of getReachableFrom
ReachStep ==
  /\ call.pc = "loop"
  /\ call.queue # <<>>
  /\ LET id == Head(call.queue) IN
       IF id \in call.visited
         THEN call' = [call EXCEPT !.queue = Tail(call.queue),
                                   !.iterations = @ + 1]
         ELSE LET now == call.visited \cup {id}
                  outgoing == GetOrEmpty(store.edgeSourceIndex, id)
                  targets == [k \in 1..Len(outgoing) |->
                                store.edges[outgoing[k]].target]
              IN call' = [call EXCEPT
                           !.visited = now,
                           !.queue = Tail(call.queue)
                                     \o SelectSeq(targets, LAMBDA t : t \notin now),
                           !.iterations = @ + 1]
  /\ UNCHANGED <<pipelineVars, runVars, paramVars, cliVars, bfsVars, watchVars,
                 store>>

\* The loop ends and visited is returned
ReachReturn ==
  /\ call.pc = "loop"
  /\ call.queue = <<>>
  /\ call' = [call EXCEPT !.pc = "returned"]
  /\ UNCHANGED <<pipelineVars, runVars, paramVars, cliVars, bfsVars, watchVars,
                 store>>

StoreNext ==
  \/ Load
  \/ GetReachableFrom
  \/ ReachStep
  \/ ReachReturn

SpecStore == StoreInit /\ [][StoreNext]_vars

\* ------------------------------------------------------------------------
\* Watch mode (watch.ts: startWatcher; serve.ts: startServer)
\* ------------------------------------------------------------------------

\* Number of file events
MaxEvents == 3

\* The delay of the debounce timer, in milliseconds
DebounceMs == 500

\* Time passes in steps of half the delay
TickMs == DebounceMs \div 2

WatchedFiles == {FileA, FileB}

\* clearTimeout(handle): the timer with that handle, if it is still set, is
\* removed; clearing null or a timer that has fired does nothing
clearTimeout(ts, handle) == {t \in ts : t[1] # handle}

\* triggerAnalysis that leaves a timer that is already set alone
triggerAnalysis_keepsTimer(w, ts, handle, filePath) ==
  LET w1 == [w EXCEPT !.pendingChanges = @ \cup {filePath}] IN
    IF w.analyzing
      THEN [watcher |-> [w1 EXCEPT !.debounceTimer = 0],
            timers |-> clearTimeout(ts, w.debounceTimer)]
      ELSE [watcher |-> [w1 EXCEPT !.debounceTimer = handle],
            timers |-> ts \cup {<<handle, DebounceMs>>}]

\* triggerAnalysis without the test of the analyzing flag
triggerAnalysis_noGuard(w, ts, handle, filePath) ==
  LET w1 == [w EXCEPT !.pendingChanges = @ \cup {filePath}] IN
    [watcher |-> [w1 EXCEPT !.debounceTimer = handle],
     timers |-> clearTimeout(ts, w.debounceTimer)
                  \cup {<<handle, DebounceMs>>}]

\* triggerAnalysis(filePath, event) up to setTimeout; `handle` is the
\* handle setTimeout returns if it is called
triggerAnalysis(w, ts, handle, filePath) ==
  LET w1 == [w EXCEPT !.pendingChanges = @ \cup {filePath}] IN
    IF w.analyzing
      THEN [watcher |-> [w1 EXCEPT !.debounceTimer = 0],
            timers |-> clearTimeout(ts, w.debounceTimer)]
      ELSE [watcher |-> [w1 EXCEPT !.debounceTimer = handle],
            timers |-> clearTimeout(ts, w.debounceTimer)
                         \cup {<<handle, DebounceMs>>}]

\* onUpdate called whether the analysis succeeded or not
Delivered_always(ok, runId, current) ==
  runId

\* The try block after the await: onUpdate(graph) replaces the graph of the
\* server when runAnalysis resolved, the catch block leaves it
Delivered(ok, runId, current) ==
  IF ok THEN runId ELSE current

WatchInit ==
  /\ PipelineInit
  /\ project = NoProject
  /\ runs = <<>>
  /\ funcNode = FuncNode(<<>>, FALSE, {})
  /\ extracted = NotExtracted
  /\ CliIdle
  /\ BfsIdle
  /\ StoreIdle
  /\ WatchIdle

watchFrame == <<pipelineVars, runVars, paramVars, cliVars, bfsVars, storeVars>>

\* watcher.on('change' | 'add' | 'unlink'): triggerAnalysis(filePath, ...)
FileEvent ==
  /\ hist.events < MaxEvents
  /\ \E filePath \in WatchedFiles :
       LET next == triggerAnalysis(watcher, timers, hist.handles + 1, filePath)
       IN /\ watcher' = next.watcher
          /\ timers' = next.timers
  /\ hist' = [hist EXCEPT !.events = @ + 1,
                          !.handles = IF watcher.analyzing THEN @ ELSE @ + 1,
                          !.startsSinceEvent = 0,
                          !.sinceLast = 0]
  /\ UNCHANGED <<inFlight, served, broadcasts, watchFrame>>

\* No timer fires before its delay has passed, and a timer whose delay has
\* passed fires before more time passes
Tick ==
  /\ \A t \in timers : t[2] > 0
  /\ timers # {} \/ hist.sinceLast < DebounceMs
  /\ timers' = {<<t[1], t[2] - TickMs>> : t \in timers}
  /\ hist' = [hist EXCEPT !.sinceLast = IF @ + TickMs > DebounceMs
                                          THEN DebounceMs ELSE @ + TickMs]
  /\ UNCHANGED <<watcher, inFlight, served, broadcasts, watchFrame>>

\* The timer callback up to `await runAnalysis(config)`
TimerFire ==
  /\ \E t \in timers :
       /\ t[2] = 0
       /\ timers' = timers \ {t}
  /\ watcher' = [watcher EXCEPT !.analyzing = TRUE, !.pendingChanges = {}]
  /\ inFlight' = inFlight \cup {hist.starts + 1}
  /\ hist' = [hist EXCEPT !.starts = @ + 1,
                          !.startsSinceEvent = @ + 1,
                          !.gapAtStart = hist.sinceLast]
  /\ UNCHANGED <<served, broadcasts, watchFrame>>

\* The timer callback after the await: runAnalysis of run `runId` resolved
\* (ok) or rejected; try, catch and finally
AnalysisSettles ==
  \E runId \in inFlight, ok \in BOOLEAN :
    /\ inFlight' = inFlight \ {runId}
    /\ served' = Delivered(ok, runId, served)
    /\ broadcasts' = IF Delivered(ok, runId, served) # served
                       THEN Append(broadcasts, runId) ELSE broadcasts
    /\ LET w1 == [watcher EXCEPT !.analyzing = FALSE]
           next == triggerAnalysis(w1, timers, hist.handles + 1,
                                   CHOOSE f \in watcher.pendingChanges : TRUE)
       IN IF watcher.pendingChanges # {}
            THEN /\ watcher' = next.watcher
                 /\ timers' = next.timers
            ELSE /\ watcher' = w1
                 /\ UNCHANGED timers
    /\ hist' = [hist EXCEPT
                  !.handles = IF watcher.pendingChanges # {} THEN @ + 1 ELSE @,
                  !.lastGood = IF ok THEN runId ELSE @,
                  !.failures = IF ok THEN @ ELSE @ + 1]
    /\ UNCHANGED watchFrame

WatchNext ==
  \/ FileEvent
  \/ Tick
  \/ TimerFire
  \/ AnalysisSettles

\* Time passes and a timer that is due fires; nothing makes an analysis
\* settle
SpecWatch ==
  /\ WatchInit
  /\ [][WatchNext]_vars
  /\ WF_vars(Tick)
  /\ WF_vars(TimerFire)

\* ------------------------------------------------------------------------
\* Properties
\* ------------------------------------------------------------------------

Emitted == pc = "done"

Nodes == Range(graph.nodes)
Edges == Range(graph.edges)
EntryIds == Range(graph.entryNode.targets)

\* The ids reachable from the ids of S along edges: the least set that
\* contains S and is closed under outgoing edges.
RECURSIVE Reach(_, _)
Reach(edgeSet, S) ==
  LET next == S \cup {e.target : e \in {x \in edgeSet : x.source \in S}}
  IN IF next = S THEN S ELSE Reach(edgeSet, next)

IsSentinel(target) ==
  /\ StartsWith(target, DynamicPrefix)
  /\ target[Len(target)] = "]"

HasUnused(n) == n.unusedParameters # <<>>

\* C1: in every artifact, a node reachable along outgoing edges from a node
\* whose status is entry has status live or entry.
C1_ReachableFromEntryIsLive ==
  Emitted =>
    \A a \in Nodes, b \in Nodes :
       (a.status = "entry" /\ b.id \in Reach(Edges, {a.id}))
         => b.status \in {"live", "entry"}

C3_VarInitTargetsLive ==
  Emitted =>
    \A e \in Edges :
       e.kind = "varinit" =>
         \A n \in Nodes : n.id = e.target => n.status \in {"live", "entry"}

\* C4: when the entry-id set is empty and no auto-entry rule applies to any
\* node, every node of the artifact is dead.
C4_NoEntryAllDead ==
  (Emitted /\ EntryIds = {} /\ \A n \in Nodes : ~autoDetectEntryPoint(n))
    => \A n \in Nodes : n.status = "dead"

\* C5: a node has status entry exactly when its isEntryPoint flag is set.
C5_EntryIffIsEntryPoint ==
  Emitted => \A n \in Nodes : (n.status = "entry") <=> n.isEntryPoint

\* C5 witness: an artifact with an entry node and a node that is none.
C5_Witness ==
  /\ Emitted
  /\ \E n \in Nodes : n.isEntryPoint /\ n.status = "entry"
  /\ \E n \in Nodes : ~n.isEntryPoint /\ n.status # "entry"

\* The colour table of the reachability engine.
ColorOf(status, unused) ==
  CASE status = "entry" -> "blue"
    [] status = "live" /\ ~unused -> "green"
    [] status = "live" /\ unused -> "yellow"
    [] status = "dead" /\ ~unused -> "red"
    [] OTHER -> "orange"

\* C6: the colour of every node is the table's entry for its status and
\* for whether it has unused parameters.
C6_ColorFromStatus ==
  Emitted => \A n \in Nodes : n.color = ColorOf(n.status, HasUnused(n))

\* C6 witness: an artifact that holds a yellow and an orange node, or a
\* green and a red one next to a blue one.
C6_Witness ==
  /\ Emitted
  /\ \E n \in Nodes : n.status = "live" /\ HasUnused(n) /\ n.color = "yellow"
  /\ \E n \in Nodes : n.status = "dead" /\ ~HasUnused(n) /\ n.color = "red"
  /\ \E n \in Nodes : n.status = "entry" /\ n.color = "blue"

\* C7: every edge starts at a node of the artifact and ends at a node of
\* the artifact or at a [dynamic:...] sentinel on an unresolved edge.
C7_EdgeClosure ==
  Emitted =>
    \A e \in Edges :
       /\ e.source \in NodeIds(graph.nodes)
       /\ \/ e.target \in NodeIds(graph.nodes)
          \/ IsSentinel(e.target) /\ ~e.isResolved

\* C7 witness: an artifact with a resolved edge between two of its nodes
\* and an unresolved edge that ends at a sentinel.
C7_Witness ==
  /\ Emitted
  /\ \E e \in Edges : IsSentinel(e.target) /\ ~e.isResolved
  /\ \E e \in Edges : e.target \in NodeIds(graph.nodes) /\ e.isResolved

\* C8: for every edge, being unresolved, being of kind dynamic and ending at
\* a sentinel are the same thing.
C8_UnresolvedIffDynamic ==
  Emitted =>
    \A e \in Edges :
       /\ (e.isResolved = FALSE) <=> (e.kind = "dynamic")
       /\ (e.kind = "dynamic") <=> IsSentinel(e.target)

\* The names bound by a binding name, left to right.
RECURSIVE BoundNames(_)
BoundNames(b) ==
  IF b.kind = "id" THEN {b.text}
  ELSE IF b.kind = "omitted" THEN {}
  ELSE UNION {BoundNames(b.elements[i]) : i \in 1..Len(b.elements)}

Referenced(name, fn) == \E occ \in fn.body : occ.text = name /\ occ.ctx = "expr"

\* C9: for a destructuring parameter of a function with a body, a bound
\* name that the body references is not in unusedParameters, and a bound
\* name (not starting with _) that the body never mentions is.
C9_DestructuredBindingsReported ==
  (extracted # NotExtracted /\ funcNode.hasBody) =>
    \A i \in 1..Len(funcNode.parameters) :
       funcNode.parameters[i].kind \in {"obj", "arr"} =>
         \A name \in BoundNames(funcNode.parameters[i]) :
            /\ Referenced(name, funcNode)
                 => name \notin Range(extracted.unusedParameters)
            /\ (~StartsWith(name, <<"_">>)
                /\ \A occ \in funcNode.body : occ.text # name)
                 => name \in Range(extracted.unusedParameters)

\* The rule table of the matcher, over the fields of a node as extracted.
RuleMatches(n, rule) ==
  \/ /\ rule.type \in {"file", "export"}
     /\ minimatch(n.filePath, rule.pattern)
     /\ n.visibility = "exported"
  \/ /\ rule.type = "function"
     /\ rule.name \in {n.name, n.qualifiedName, n.id}
  \/ /\ rule.type = "decorator"
     /\ \E d \in Range(n.decorators) : d = rule.name \/ Includes(d, rule.name)

AutoMatches(n) ==
  \/ /\ n.language = "go"
     /\ \/ n.name \in {NameMain, NameInit}
        \/ \E prefix \in {NameTest, NameBenchmark, NameExample} :
             StartsWith(n.name, prefix)
  \/ n.language = "python" /\ n.name = NameDunderMain

Matched(n) ==
  \/ \E rule \in Range(config.entryPoints) : RuleMatches(n, rule)
  \/ AutoMatches(n)

\* C10: the returned ids are the ids of the matched nodes, every matched
\* node has isEntryPoint set, and the flag of every other node is as the
\* extractor left it.
C10_MatchExactlyMatched ==
  Emitted =>
    /\ EntryIds = {n.id : n \in {m \in Nodes : Matched(m)}}
    /\ \A i \in 1..Len(graph.nodes) :
         graph.nodes[i].isEntryPoint =
           (Matched(result.nodes[i]) \/ result.nodes[i].isEntryPoint)

\* C10 witness: a file rule that matches an exported node and passes over a
\* node of the same file that is not exported, next to a node matched by a
\* decorator rule through a substring.
C10_Witness ==
  /\ Emitted
  /\ \E rule \in Range(config.entryPoints), n \in Nodes, m \in Nodes :
       /\ rule.type = "file"
       /\ n.filePath = m.filePath
       /\ RuleMatches(n, rule) /\ n.isEntryPoint /\ n.id \in EntryIds
       /\ ~Matched(m) /\ ~m.isEntryPoint /\ m.id \notin EntryIds

\* C11: in every artifact the entry node has id __entry__ and its targets
\* are the ids of the nodes with isEntryPoint set, and no other id.
C11_EntryNodeTargets ==
  Emitted =>
    /\ graph.entryNode.id = <<"_", "_", "e", "n", "t", "r", "y", "_", "_">>
    /\ EntryIds = {n.id : n \in {m \in Nodes : m.isEntryPoint}}

InsertAt(s, k, x) == SubSeq(s, 1, k) \o <<x>> \o SubSeq(s, k + 1, Len(s))

SelfEdge(id) == Edge(id, id, CallSite(<<>>, 1, 1), "direct", TRUE)

Statuses(nodes) == [i \in 1..Len(nodes) |-> nodes[i].status]

\* C12: wherever an edge from a node to itself is added to the edge list,
\* propagateEntryPoints assigns every node the status it assigns without it.
C12_SelfEdgeChangesNothing ==
  Emitted =>
    \A n \in Nodes, k \in 0..Len(graph.edges) :
       Statuses(propagateEntryPoints(graph.nodes,
                                     InsertAt(graph.edges, k, SelfEdge(n.id)),
                                     graph.entryNode.targets))
         = Statuses(graph.nodes)

\* C12 witness: an artifact whose edge list holds an edge from a dead node
\* to itself, next to a live node.
C12_Witness ==
  /\ Emitted
  /\ \E e \in Edges, n \in Nodes :
       e.source = e.target /\ n.id = e.source /\ n.status = "dead"
  /\ \E n \in Nodes : n.status = "live"

CountOf(P(_), q) == Cardinality({i \in 1..Len(q) : P(q[i])})

IsDead(n) == n.status = "dead"

\* C13: the dead-function count of the stats and of the metadata is the
\* number of nodes with status dead, and the unused-parameter count of both
\* is the number of nodes with a non-empty unusedParameters list.
C13_StatsCounts ==
  Emitted =>
    /\ graph.stats.deadFunctions.count = CountOf(IsDead, graph.nodes)
    /\ graph.metadata.totalDeadFunctions = CountOf(IsDead, graph.nodes)
    /\ graph.stats.unusedParameters.count = CountOf(HasUnused, graph.nodes)
    /\ graph.metadata.totalUnusedParameters = CountOf(HasUnused, graph.nodes)

\* C13 witness: an artifact in which some but not all nodes are dead and
\* some but not all nodes have unused parameters.
C13_Witness ==
  /\ Emitted
  /\ 0 < graph.stats.deadFunctions.count
  /\ graph.stats.deadFunctions.count < Len(graph.nodes)
  /\ 0 < graph.stats.unusedParameters.count
  /\ graph.stats.unusedParameters.count < Len(graph.nodes)

Clusters == Range(graph.clusters)

\* The number of places, over all clusters, at which id is listed
Listings(id) ==
  Cardinality({<<c, j>> \in (1..Len(graph.clusters)) \X (1..Len(graph.nodes)) :
                 /\ j <= Len(graph.clusters[c].nodeIds)
                 /\ graph.clusters[c].nodeIds[j] = id})

\* C14: the id of every node is listed exactly once in the nodeIds lists of
\* all clusters together.
C14_EachIdInOneCluster ==
  Emitted => \A n \in Nodes : Listings(n.id) = 1

\* Following parent from cluster c for at most `steps` steps ends at a
\* cluster whose parent is null.
RECURSIVE ChainEnds(_, _)
ChainEnds(c, steps) ==
  \/ c.parent = <<>>
  \/ /\ steps > 0
     /\ \E d \in Clusters : d.id = c.parent[1] /\ ChainEnds(d, steps - 1)

\* C15: from every cluster, following parent to the cluster with that id
\* reaches a cluster whose parent is null.
C15_ParentChainEnds ==
  Emitted => \A c \in Clusters : ChainEnds(c, Len(graph.clusters))

\* The characters of ids and paths, in code-unit order
CharOrder ==
  << " ", ",", ".", "/", "0", "1", "2", "3", "4", "5", "6", "7", "8",
     "9", ":", "A", "B", "C", "D", "E", "F", "G", "H", "I", "J", "K",
     "L", "M", "N", "O", "P", "Q", "R", "S", "T", "U", "V", "W", "X",
     "Y", "Z", "[", "]", "_", "a", "b", "c", "d", "e", "f", "g", "h",
     "i", "j", "k", "l", "m", "n", "o", "p", "q", "r", "s", "t", "u",
     "v", "w", "x", "y", "z", "{", "}" >>

CharCode(c) == CHOOSE k \in 1..Len(CharOrder) : CharOrder[k] = c

\* String comparison: -1, 0 or 1
RECURSIVE StrCmp(_, _)
StrCmp(a, b) ==
  IF a = <<>> THEN (IF b = <<>> THEN 0 ELSE -1)
  ELSE IF b = <<>> THEN 1
  ELSE IF CharCode(Head(a)) < CharCode(Head(b)) THEN -1
  ELSE IF CharCode(Head(a)) > CharCode(Head(b)) THEN 1
  ELSE StrCmp(Tail(a), Tail(b))

NumCmp(x, y) == IF x < y THEN -1 ELSE IF x > y THEN 1 ELSE 0

\* The edge kinds in lexical order
KindOrder ==
  << "callback", "constructor", "direct", "dynamic", "funcref", "interface",
     "method", "provided", "varinit" >>

KindRank(kind) == CHOOSE k \in 1..Len(KindOrder) : KindOrder[k] = kind

\* The first non-zero comparison of a list, or 0
RECURSIVE FirstNonZero(_)
FirstNonZero(cs) ==
  IF cs = <<>> THEN 0
  ELSE IF Head(cs) # 0 THEN Head(cs) ELSE FirstNonZero(Tail(cs))

EdgeCmp(e, f) ==
  FirstNonZero(<< StrCmp(e.source, f.source),
                  StrCmp(e.target, f.target),
                  StrCmp(e.callSite.filePath, f.callSite.filePath),
                  NumCmp(e.callSite.line, f.callSite.line),
                  NumCmp(e.callSite.column, f.callSite.column),
                  NumCmp(KindRank(e.kind), KindRank(f.kind)) >>)

\* C16: the artifact is in canonical order: nodes ascending by id, edges
\* ascending by (source, target, callSite.filePath, callSite.line,
\* callSite.column, kind), clusters ascending by id, entry targets ascending.
C16_CanonicalOrder ==
  Emitted =>
    /\ \A i \in 1..(Len(graph.nodes) - 1) :
         StrCmp(graph.nodes[i].id, graph.nodes[i + 1].id) <= 0
    /\ \A i \in 1..(Len(graph.edges) - 1) :
         EdgeCmp(graph.edges[i], graph.edges[i + 1]) <= 0
    /\ \A i \in 1..(Len(graph.clusters) - 1) :
         StrCmp(graph.clusters[i].id, graph.clusters[i + 1].id) <= 0
    /\ \A i \in 1..(Len(graph.entryNode.targets) - 1) :
         StrCmp(graph.entryNode.targets[i], graph.entryNode.targets[i + 1]) <= 0

\* Does a node of size l1 and id i1 rank before one of size l2 and id i2:
\* more lines first, and among equal sizes the smaller id first
RanksBefore(l1, i1, l2, i2) ==
  l1 > l2 \/ (l1 = l2 /\ StrCmp(i1, i2) <= 0)

Largest == graph.stats.largestFunctions

\* C18: largestFunctions lists the ten (or fewer) largest nodes by
\* linesOfCode in descending order, equal sizes ordered by id ascending,
\* and no node left out ranks before a listed one.
C18_LargestFunctions ==
  Emitted =>
    /\ Len(Largest) = IF Len(graph.nodes) < 10 THEN Len(graph.nodes) ELSE 10
    /\ \A i \in 1..Len(Largest) :
         \E n \in Nodes : n.id = Largest[i].id /\ n.linesOfCode = Largest[i].linesOfCode
    /\ \A i \in 1..(Len(Largest) - 1) :
         RanksBefore(Largest[i].linesOfCode, Largest[i].id,
                     Largest[i + 1].linesOfCode, Largest[i + 1].id)
    /\ \A n \in Nodes :
         n.id \notin {Largest[i].id : i \in 1..Len(Largest)} =>
           \A i \in 1..Len(Largest) :
              RanksBefore(Largest[i].linesOfCode, Largest[i].id,
                          n.linesOfCode, n.id)

\* An artifact without the two clock readings of its metadata
Timeless(artifact) ==
  [artifact EXCEPT !.metadata.generatedAt = 0, !.metadata.analysisTimeMs = 0]

\* C17: two runs on the same project with the same configuration produce
\* the same artifact, the clock readings in the metadata aside.
C17_RunsAgree ==
  Len(runs) = 2 => Timeless(runs[1]) = Timeless(runs[2])

\* The Go extractor's output for the project: the edges of the first run
GoOutput == Len(runs) >= 1 /\ project.language = "go"

\* C19: for an interface call i.Do() in function f, the Go extractor's
\* output has an edge of kind interface and isResolved = true from f to T.Do
\* for every concrete type T of the project that implements the interface.
C19_InterfaceFanOut ==
  (GoOutput /\ project.typedOk) =>
    \A k \in 1..Len(project.sites) :
       project.sites[k].form = "icall" =>
         \A t \in 1..Len(GoDecls) :
            ( /\ GoDecls[t].name = NameDo
              /\ GoDecls[t].receiver \in Range(concreteTypes)
              /\ Implements(GoDecls[t].receiver, GoType(NameI))
              /\ {GoId(GoDecls[project.sites[k].src]), GoId(GoDecls[t])}
                   \subseteq NodeIds(runs[1].nodes) )
            => \E e \in Range(runs[1].edges) :
                  /\ e.source = GoId(GoDecls[project.sites[k].src])
                  /\ e.target = GoId(GoDecls[t])
                  /\ e.kind = "interface"
                  /\ e.isResolved

\* C20: in the Go extractor's output no two edges have the same source and
\* the same target.
C20_NoDuplicateEdges ==
  GoOutput =>
    \A i, j \in 1..Len(runs[1].edges) :
       ( /\ runs[1].edges[i].source = runs[1].edges[j].source
         /\ runs[1].edges[i].target = runs[1].edges[j].target ) => i = j

\* A fatal error of the run: the helper exited with a non-zero code or
\* could not be spawned
Fatal == helperCode > 0 \/ helper = "failed"

\* C21: after a fatal error during analysis runAnalysis rejects, no
\* artifact is ever written, and the process exits with a non-zero code.
C21_FatalNoArtifact ==
  /\ [](Fatal => (settled = "rejected" /\ output = <<>>))
  /\ (Fatal ~> (cli = "exited" /\ exitCode # 0 /\ exitCode # -1))

\* C21 witness: the Go helper exited with a non-zero code and the command
\* has exited with code 1, no output file written.
C21_Witness ==
  /\ project.language = "go"
  /\ helperCode > 0
  /\ cli = "exited"
  /\ exitCode = 1
  /\ output = <<>>

\* C22: a helper child process that has been spawned stops running (it
\* exits or is killed on its timeout); no run waits for it for ever.
C22_HelperStops ==
  (helper = "running") ~> (helper # "running")

\* A rule whose pattern minimatch accepts, or that has no pattern
WellFormed(rule) ==
  rule.type \in {"file", "export"} => assertValidPattern(rule.pattern)

\* C23: with a file or export rule whose pattern is not a well-formed glob
\* the run does not abort, and in the artifact every node that another
\* configured rule or an auto-detection rule matches is an entry point.
C23_InvalidGlobDropped ==
  (\E rule \in Range(config.entryPoints) : ~WellFormed(rule)) =>
    /\ pc # "failed"
    /\ Emitted =>
         \A i \in 1..Len(graph.nodes) :
            ( \/ AutoMatches(result.nodes[i])
              \/ \E rule \in Range(config.entryPoints) :
                   WellFormed(rule) /\ RuleMatches(result.nodes[i], rule) )
            => graph.nodes[i].isEntryPoint

\* A node with the three fields the later stages assign taken from `from`
WithAssigned(node, from) ==
  [node EXCEPT !.status = from.status, !.color = from.color,
               !.isEntryPoint = from.isEntryPoint]

\* C24: the artifact has the edges of the extraction unchanged, and its
\* nodes are the nodes of the extraction, in the same order, equal in every
\* field other than status, color and isEntryPoint.
C24_OnlyStatusColorEntry ==
  Emitted =>
    /\ graph.edges = result.edges
    /\ Len(graph.nodes) = Len(result.nodes)
    /\ \A i \in 1..Len(graph.nodes) :
         WithAssigned(graph.nodes[i], result.nodes[i]) = result.nodes[i]

\* C24 witness: an artifact with an edge, in which the matcher has set
\* isEntryPoint on a node with unused parameters and the reachability
\* stage has changed the status of another node.
C24_Witness ==
  /\ Emitted
  /\ graph.edges # <<>>
  /\ \E i \in 1..Len(graph.nodes) :
       /\ graph.nodes[i].isEntryPoint /\ ~result.nodes[i].isEntryPoint
       /\ HasUnused(graph.nodes[i])
  /\ \E i \in 1..Len(graph.nodes) :
       /\ graph.nodes[i].status # result.nodes[i].status
       /\ ~graph.nodes[i].isEntryPoint

\* The number of times id was expanded
Expanded(id) == Cardinality({k \in 1..Len(expansions) : expansions[k] = id})

\* C25: the BFS of propagateEntryPoints reads the adjacency list of every
\* id at most once and runs at most one iteration per entry id and per
\* edge, so it ends on every edge list, cyclic or not; it ends with the
\* set the recursive description of the loop gives.
C25_BfsBounded ==
  /\ \A id \in BfsIds : Expanded(id) <= 1
  /\ iterations <= Len(bfsEntry) + Len(bfsEdges)
  /\ bfsPc = "done" => reachable = bfs(bfsEdges, bfsEntry, {})

\* C25 witness: the loop has ended on an edge list with a cycle, a
\* self-edge or a second edge to the same target, and an edge to the
\* sentinel, after an iteration that skipped an id already visited.
C25_Witness ==
  /\ bfsPc = "done"
  /\ \E e \in Range(bfsEdges), f \in Range(bfsEdges) :
       e.source = f.target /\ e.target = f.source
  /\ \E e \in Range(bfsEdges) : e.target \notin {IdA, IdB}
  /\ iterations > Len(expansions)
  /\ expansions # <<>>

\* C27: getReachableFrom(id) ends after at most one iteration for id and
\* one per edge, and returns id together with exactly the node ids that a
\* path of one or more edges leads to from id.
C27_ReachableFrom ==
  /\ call.iterations <= 1 + Len(store.edges)
  /\ call.pc = "returned" =>
       call.visited =
         {call.nodeId}
           \cup (Reach(Range(store.edges), {call.nodeId}) \cap NodeIds(store.nodes))

\* C27 witness: a call has returned more than its argument on a graph with
\* a cycle and an edge to a sentinel.
C27_Witness ==
  /\ call.pc = "returned"
  /\ Cardinality(call.visited) > 1
  /\ \E e \in Range(store.edges), f \in Range(store.edges) :
       e.source = f.target /\ e.target = f.source /\ e.source # e.target
  /\ \E e \in Range(store.edges) : e.target = StoreSentinel

\* Files are waiting for an analysis and none is running
Waiting == ~watcher.analyzing /\ watcher.pendingChanges # {}

\* C26: between two file events at most one analysis starts, an analysis
\* starts only when the delay has passed since the last event, and files
\* that wait while no analysis runs lead to the start of an analysis.
C26_BurstOneAnalysis ==
  /\ [](hist.startsSinceEvent <= 1)
  /\ [](hist.starts > 0 => hist.gapAtStart = DebounceMs)
  /\ (Waiting ~> watcher.analyzing)

\* C26 witness: three events, each less than the delay after the one
\* before, and one analysis, started after the last of them.
C26_Witness ==
  /\ hist.events = 3
  /\ hist.handles = 3
  /\ hist.starts = 1
  /\ hist.startsSinceEvent = 1
  /\ hist.failures = 0
  /\ inFlight = {1}

\* C28: at most one runAnalysis call of the watcher is in flight.
C28_OneInFlight ==
  Cardinality(inFlight) <= 1

\* C28 witness: an analysis is in flight, an event has arrived since it
\* started, and it is not the first analysis of the watcher.
C28_Witness ==
  /\ Cardinality(inFlight) = 1
  /\ hist.starts = 2
  /\ watcher.pendingChanges # {}

\* C29: every file event is followed by the start of an analysis: the set
\* of pending changes, which only the start of an analysis empties, does
\* not stay non-empty for ever.
C29_NoChangeLost ==
  (watcher.pendingChanges # {}) ~> (watcher.pendingChanges = {})

\* C30: the server serves the graph of the last run that succeeded, a
\* graph-update was broadcast for the runs that succeeded and for no other,
\* the analyzing flag is clear whenever no run is in flight, and files that
\* wait after a failed run lead to the start of an analysis.
C30_FailureKeepsLastGraph ==
  /\ [](served = hist.lastGood)
  /\ [](Len(broadcasts) + hist.failures + Cardinality(inFlight) = hist.starts)
  /\ [](\A k \in 1..Len(broadcasts) : broadcasts[k] <= hist.lastGood)
  /\ [](inFlight = {} => ~watcher.analyzing)
  /\ ((hist.failures > 0 /\ Waiting) ~> watcher.analyzing)

\* C30 witness: the first re-analysis succeeded, the second failed, the
\* server still serves the graph of the first, and a third has started.
C30_Witness ==
  /\ hist.failures = 1
  /\ hist.lastGood = 1
  /\ served = 1
  /\ broadcasts = <<1>>
  /\ hist.starts = 3
  /\ inFlight = {3}

====
